---------------------------- MODULE Spec2Model ----------------------------
(***************************************************************************)
(* A model of scripts/asc-metadata.py (ZephShipper, App Store Connect      *)
(* metadata manager): the keyword synthesizer, the copy generators, the    *)
(* content guardrails, the optimize pipeline and the publisher.            *)
(*                                                                         *)
(* Python strings are TLA+ strings; TLC evaluates Len, \o, SubSeq, Head    *)
(* and Tail on them.  Python lists are sequences, Python sets are sets.    *)
(* The characters are ASCII: the three- and six-character marks that open  *)
(* a warning line in the source file are written with ASCII stand-ins of   *)
(* the same length (BLOCK_MARK, WARN_MARK, DASH).                          *)
(***************************************************************************)
EXTENDS Integers, Sequences, FiniteSets, TLC

VARIABLES
    pc,                 \* the function being run and how far it got
    feature_keywords,   \* build_keyword_field: argument (list of str)
    category_keywords,  \* build_keyword_field: argument (list of str)
    title_words,        \* build_keyword_field / generate_subtitle: argument
    subtitle_words,     \* build_keyword_field: argument
    limit,              \* build_keyword_field: argument
    ordered,            \* build_keyword_field: the local list `ordered`
    new_keywords,       \* build_keyword_field: the returned string
    analysis,           \* the dict analyze_project returns
    app_name,           \* generate_description / generate_promo_text: argument
    keyword_words,      \* generate_subtitle: argument
    new_subtitle,       \* generate_subtitle: the returned string
    new_description,    \* generate_description: the returned string
    new_promo,          \* generate_promo_text: the returned string
    meta,               \* validate_metadata / enforce_guardrails: argument
    force,              \* enforce_guardrails: argument
    warnings,           \* validate_metadata: the returned list
    allowed,            \* enforce_guardrails: the tuple of the values it returned
    stdout,             \* the lines printed so far
    project,            \* analyze_project: what the source tree holds
    apply,              \* cmd_optimize: argument
    file,               \* the JSON file cmd_optimize writes and cmd_set reads
    requests,           \* the requests sent to the store API so far
    app_id,             \* cmd_submit: argument
    sub_id,             \* cmd_submit: the id of the review submission created
    ver_id,             \* cmd_submit: the id of the latest version
    responses           \* what the store answered to the requests of cmd_submit

vars == <<pc, feature_keywords, category_keywords, title_words, subtitle_words,
          limit, ordered, new_keywords, analysis, app_name, keyword_words,
          new_subtitle, new_description, new_promo, meta, force, warnings,
          allowed, stdout, project, apply, file, requests, app_id, sub_id,
          ver_id, responses>>

kwVars == <<feature_keywords, category_keywords, subtitle_words, limit, ordered,
            new_keywords>>
copyVars == <<analysis, app_name, keyword_words, new_subtitle, new_description,
              new_promo>>
guardVars == <<meta, force, warnings, allowed, stdout>>
pipeVars == <<project, apply, file, requests>>
submitVars == <<app_id, sub_id, ver_id, responses>>

\* The value of a variable a function has not produced yet (Python: unbound).
NONE == "<none>"

(***************************************************************************)
(* Python str and list operations                                          *)
(***************************************************************************)
Min(a, b) == IF a <= b THEN a ELSE b

\* s[i] for a 1-based index
CharAt(s, i) == SubSeq(s, i, i)

\* the characters of a string, as a set of one-character strings
Chars(s) == {CharAt(s, i) : i \in 1..Len(s)}

UPPERCASE == "ABCDEFGHIJKLMNOPQRSTUVWXYZ"
LOWERCASE == "abcdefghijklmnopqrstuvwxyz"
UpperChars == Chars(UPPERCASE)
LowerChars == Chars(LOWERCASE)
DigitChars == Chars("0123456789")
\* what str.strip() and str.split() take for whitespace, and the regex \s
WhitespaceChars == Chars(" \t\n\r\f")

LowerOf == [c \in UpperChars |->
              CharAt(LOWERCASE, CHOOSE i \in 1..26 : CharAt(UPPERCASE, i) = c)]

LowerChar(c) == IF c \in UpperChars THEN LowerOf[c] ELSE c

\* str.lower()
RECURSIVE Lower(_)
Lower(s) ==
    IF s = "" THEN ""
    ELSE IF Len(s) = 1 THEN LowerChar(s)
    ELSE LET half == Len(s) \div 2
         IN  Lower(SubSeq(s, 1, half)) \o Lower(SubSeq(s, half + 1, Len(s)))

\* str.strip(): leading and trailing whitespace removed
Strip(s) ==
    LET keep == {i \in 1..Len(s) : CharAt(s, i) \notin WhitespaceChars}
    IN  IF keep = {} THEN ""
        ELSE SubSeq(s, CHOOSE i \in keep : \A j \in keep : i <= j,
                       CHOOSE i \in keep : \A j \in keep : j <= i)

\* str.startswith / str.endswith
StartsWith(s, p) == Len(p) <= Len(s) /\ SubSeq(s, 1, Len(p)) = p
EndsWith(s, p) == Len(p) <= Len(s) /\ SubSeq(s, Len(s) - Len(p) + 1, Len(s)) = p

\* s[:n]
Truncate(s, n) == SubSeq(s, 1, Min(Len(s), n))

\* the positions of the one-character string c in s
Positions(s, c) == {i \in 1..Len(s) : CharAt(s, i) = c}

MinOf(S) == CHOOSE i \in S : \A j \in S : i <= j

\* str.split(sep) for a one-character separator: empty pieces are kept
RECURSIVE SplitOn(_, _)
SplitOn(s, sep) ==
    LET at == Positions(s, sep)
    IN  IF at = {} THEN <<s>>
        ELSE LET i == MinOf(at)
             IN  <<SubSeq(s, 1, i - 1)>> \o SplitOn(SubSeq(s, i + 1, Len(s)), sep)

\* str.split(): pieces between runs of whitespace, no empty piece
RECURSIVE SplitWhitespace(_)
SplitWhitespace(s) ==
    LET t == Strip(s)
        ws == {i \in 1..Len(t) : CharAt(t, i) \in WhitespaceChars}
    IN  IF t = "" THEN <<>>
        ELSE IF ws = {} THEN <<t>>
        ELSE LET i == MinOf(ws)
             IN  <<SubSeq(t, 1, i - 1)>> \o SplitWhitespace(SubSeq(t, i + 1, Len(t)))

\* sep.join(list)
RECURSIVE Join(_, _)
Join(list, sep) ==
    IF list = <<>> THEN ""
    ELSE IF Len(list) = 1 THEN list[1]
    ELSE list[1] \o sep \o Join(Tail(list), sep)

\* x in list
InList(x, list) == \E i \in 1..Len(list) : list[i] = x

\* the elements of a list, as a set
Range(list) == {list[i] : i \in 1..Len(list)}

\* set(w.lower() for w in words)
LowerSet(words) == {Lower(words[i]) : i \in 1..Len(words)}

\* a string of n copies of the one-character string c
RECURSIVE Rep(_, _)
Rep(c, n) ==
    IF n <= 0 THEN ""
    ELSE LET h == Rep(c, n \div 2)
         IN  IF n % 2 = 0 THEN h \o h ELSE h \o h \o c

(***************************************************************************)
(* build_keyword_field                                                     *)
(***************************************************************************)
no_deplural == {"news", "analysis", "stocks", "this", "plus", "focus", "canvas",
                "status", "virus", "bus", "gas", "atlas", "bias", "axis"}

\* exclude = set(w.lower() for w in title_words) | set(w.lower() for w in subtitle_words)
ExcludeSet(tw, sw) == LowerSet(tw) \cup LowerSet(sw)

\* the test of lines 800 and 809, with no_deplural bound
\* every word in "s" of more than three letters is taken for a plural unless
\* it ends in "ss", "us" or "is"
IsPlural_NoExceptionList(kw) ==
    /\ EndsWith(kw, "s")
    /\ Len(kw) > 3
    /\ ~(EndsWith(kw, "ss") \/ EndsWith(kw, "us") \/ EndsWith(kw, "is"))

IsPlural(kw) ==
    /\ EndsWith(kw, "s")
    /\ Len(kw) > 3
    /\ kw \notin no_deplural
    /\ ~(EndsWith(kw, "ss") \/ EndsWith(kw, "us") \/ EndsWith(kw, "is"))

\* build_keyword_field that removes no plural
Singular_Kept(kw) == kw

\* singular = kw, or kw[:-1] for a plural
Singular(kw) == IF IsPlural(kw) THEN SubSeq(kw, 1, Len(kw) - 1) ELSE kw

\* The locals of the two candidate loops: the list `ordered`, whether the
\* name no_deplural has been assigned (line 798 assigns it inside the first
\* loop's if), and whether an exception was raised.
OrderInit == [ordered |-> <<>>, bound |-> FALSE, raised |-> FALSE]

\* whether a candidate passes the second test (lines 802 and 811)
KeepSingular(singular, exclude, ord) ==
    singular \notin exclude /\ ~InList(singular, ord)

\* one iteration of the loop over feature_keywords (lines 794-803)
FeatureStep(st, raw, exclude) ==
    LET kw == Strip(Lower(raw))
        singular == Singular(kw)
    IN  IF kw # "" /\ kw \notin exclude /\ ~InList(kw, st.ordered)
        THEN [st EXCEPT !.bound = TRUE,
                        !.ordered = IF KeepSingular(singular, exclude, st.ordered)
                                    THEN Append(st.ordered, singular)
                                    ELSE st.ordered]
        ELSE st

\* one iteration of the loop over category_keywords (lines 805-812): line 809
\* reads no_deplural once kw ends in "s" and is longer than 3, and raises
\* UnboundLocalError when the first loop never assigned it
CategoryStep(st, raw, exclude) ==
    LET kw == Strip(Lower(raw))
        singular == Singular(kw)
    IN  IF st.raised THEN st
        ELSE IF kw # "" /\ kw \notin exclude /\ ~InList(kw, st.ordered)
        THEN IF EndsWith(kw, "s") /\ Len(kw) > 3 /\ ~st.bound
             THEN [st EXCEPT !.raised = TRUE]
             ELSE [st EXCEPT !.ordered = IF KeepSingular(singular, exclude, st.ordered)
                                         THEN Append(st.ordered, singular)
                                         ELSE st.ordered]
        ELSE st

RECURSIVE FeatureLoop(_, _, _)
FeatureLoop(st, list, exclude) ==
    IF list = <<>> THEN st
    ELSE FeatureLoop(FeatureStep(st, Head(list), exclude), Tail(list), exclude)

RECURSIVE CategoryLoop(_, _, _)
CategoryLoop(st, list, exclude) ==
    IF list = <<>> THEN st
    ELSE CategoryLoop(CategoryStep(st, Head(list), exclude), Tail(list), exclude)

\* the locals after both loops: feature keywords first, then the category pool
OrderedCandidates(fk, ck, tw, sw) ==
    LET exclude == ExcludeSet(tw, sw)
    IN  CategoryLoop(FeatureLoop(OrderInit, fk, exclude), ck, exclude)

\* FillStep with the comma left out of added_len
FillStepNoComma(st, kw, lim) ==
    LET added_len == Len(kw)
    IN  IF st.current_len + added_len <= lim
        THEN [result |-> Append(st.result, kw),
              current_len |-> st.current_len + added_len]
        ELSE st

\* one iteration of the fill loop (lines 817-821) over the locals result and
\* current_len: a candidate that does not fit is passed over
FillStep(st, kw, lim) ==
    LET added_len == Len(kw) + (IF st.result # <<>> THEN 1 ELSE 0)
    IN  IF st.current_len + added_len <= lim
        THEN [result |-> Append(st.result, kw),
              current_len |-> st.current_len + added_len]
        ELSE st

RECURSIVE FillLoop(_, _, _)
FillLoop(st, ord, lim) ==
    IF ord = <<>> THEN st
    ELSE FillLoop(FillStep(st, Head(ord), lim), Tail(ord), lim)

\* the list `result` after the fill loop
Fill(ord, lim) == FillLoop([result |-> <<>>, current_len |-> 0], ord, lim).result

\* What a call does: [raised, ordered, value]; value is the returned string,
\* ",".join(result), and NONE when the call raised.
build_keyword_field(fk, ck, tw, sw, lim) ==
    LET st == OrderedCandidates(fk, ck, tw, sw)
    IN  IF st.raised
        THEN [raised |-> TRUE, ordered |-> st.ordered, value |-> NONE]
        ELSE [raised |-> FALSE, ordered |-> st.ordered,
              value |-> Join(Fill(st.ordered, lim), ",")]

(***************************************************************************)
(* Regular expressions, as re matches them: a pattern is a list of atoms   *)
(* and a match is found by backtracking, every repetition greedy.          *)
(*   Lit(t)     the text t                                                 *)
(*   Opt(c)     c?  for a character c                                      *)
(*   NotAt(t)   (?!t)                                                      *)
(*   One(C)     [C]      for a set of characters C                         *)
(*   Many(C, n) [C]{n,}                                                    *)
(***************************************************************************)
Lit(t) == [atom |-> "lit", text |-> t, class |-> {}, min |-> 0]
Opt(c) == [atom |-> "opt", text |-> c, class |-> {}, min |-> 0]
NotAt(t) == [atom |-> "not", text |-> t, class |-> {}, min |-> 0]
One(C) == [atom |-> "one", text |-> "", class |-> C, min |-> 1]
Many(C, n) == [atom |-> "rep", text |-> "", class |-> C, min |-> n]

\* \w, \d, \s and [A-Za-z] over the ASCII characters
WordChars == UpperChars \cup LowerChars \cup DigitChars \cup {"_"}
LetterChars == UpperChars \cup LowerChars

\* the number of characters from position i on that are in C, counted a
\* stretch of 8 characters at a time
RECURSIVE RunLen(_, _, _)
RunLen(s, i, C) ==
    IF i > Len(s) \/ CharAt(s, i) \notin C THEN 0
    ELSE LET hi == Min(Len(s), i + 7)
             stops == {j \in i..hi : CharAt(s, j) \notin C}
         IN  IF stops # {} THEN MinOf(stops) - i
             ELSE (hi - i + 1) + RunLen(s, hi + 1, C)

\* The position after the match of atoms k.. of pattern pat at position i of
\* s, as the backtracking search finds it; 0 when there is no match.
RECURSIVE MatchFrom(_, _, _, _)
MatchFrom(pat, k, s, i) ==
    IF k > Len(pat) THEN i
    ELSE LET a == pat[k]
             n == Len(a.text)
         IN  CASE a.atom = "lit" ->
                    IF i + n - 1 <= Len(s) /\ SubSeq(s, i, i + n - 1) = a.text
                    THEN MatchFrom(pat, k + 1, s, i + n)
                    ELSE 0
               [] a.atom = "opt" ->
                    IF i <= Len(s) /\ CharAt(s, i) = a.text
                       /\ MatchFrom(pat, k + 1, s, i + 1) # 0
                    THEN MatchFrom(pat, k + 1, s, i + 1)
                    ELSE MatchFrom(pat, k + 1, s, i)
               [] a.atom = "not" ->
                    IF i + n - 1 <= Len(s) /\ SubSeq(s, i, i + n - 1) = a.text
                    THEN 0
                    ELSE MatchFrom(pat, k + 1, s, i)
               [] a.atom = "one" ->
                    IF i <= Len(s) /\ CharAt(s, i) \in a.class
                    THEN MatchFrom(pat, k + 1, s, i + 1)
                    ELSE 0
               [] a.atom = "rep" ->
                    LET longest == RunLen(s, i, a.class)
                        fits == {m \in a.min..longest :
                                    MatchFrom(pat, k + 1, s, i + m) # 0}
                    IN  IF fits = {} THEN 0
                        ELSE MatchFrom(pat, k + 1, s,
                                       i + (CHOOSE m \in fits : \A x \in fits : x <= m))

\* re.match(pat, s): a match at the start of s
ReMatch(pat, s) == MatchFrom(pat, 1, s, 1) # 0

\* re.findall(pat, s) from position pos on: the matched texts, leftmost first,
\* the search going on after each match (no pattern here matches the empty
\* string, none has a group)
RECURSIVE FindAllFrom(_, _, _)
FindAllFrom(pat, s, pos) ==
    LET starts == {i \in pos..Len(s) : MatchFrom(pat, 1, s, i) # 0}
    IN  IF starts = {} THEN <<>>
        ELSE LET i == MinOf(starts)
                 e == MatchFrom(pat, 1, s, i)
             IN  <<SubSeq(s, i, e - 1)>> \o FindAllFrom(pat, s, e)

FindAll(pat, s) == FindAllFrom(pat, s, 1)

(***************************************************************************)
(* Guardrails: validate_metadata and enforce_guardrails                    *)
(***************************************************************************)
\* The marks that open a printed line, as the source file spells them: three
\* characters for an error, six for a warning, the first character the same.
BLOCK_MARK == "^ua"
WARN_MARK == "^o+OPe"
SHIELD_MARK == "u~*OPe"

\* EMAIL_PATTERN with the hyphen left out of both classes
EMAIL_PATTERN_NoHyphen ==
    <<Many(WordChars \cup {"."}, 1), Lit("@"),
      Many(WordChars \cup {"."}, 1), Lit("."), Many(WordChars, 1)>>

EMAIL_PATTERN ==
    <<Many(WordChars \cup {".", "-"}, 1), Lit("@"),
      Many(WordChars \cup {".", "-"}, 1), Lit("."), Many(WordChars, 1)>>
URL_PATTERN ==
    <<Lit("http"), Opt("s"), Lit("://"), NotAt("www.apple.com/legal"),
      Many(WordChars \cup {".", "-"}, 1), Lit("."), Many(WordChars, 1),
      Many(WordChars \cup {"/", ".", "-"}, 0)>>
\* the phone pattern with {6,} for {7,}
PHONE_PATTERN_EightChars ==
    <<Opt("+"), One(DigitChars),
      Many(DigitChars \cup WhitespaceChars \cup {"-", "(", ")"}, 6),
      One(DigitChars)>>

\* r'\+?\d[\d\s\-()]{7,}\d' (line 268)
PHONE_PATTERN ==
    <<Opt("+"), One(DigitChars),
      Many(DigitChars \cup WhitespaceChars \cup {"-", "(", ")"}, 7),
      One(DigitChars)>>
HANDLE_PATTERN ==
    <<Lit("@"), One(LetterChars), Many(WordChars, 2)>>

GUARDRAIL_PATTERNS ==
    <<[pattern |-> EMAIL_PATTERN, label |-> "email address"],
      [pattern |-> URL_PATTERN, label |-> "URL"],
      [pattern |-> PHONE_PATTERN, label |-> "phone number"],
      [pattern |-> HANDLE_PATTERN, label |-> "social media handle"]>>

SAFE_PATTERNS == <<<<Lit("http"), Opt("s"), Lit("://www.apple.com/legal/")>>>>

\* any(re.match(sp, match) for sp in SAFE_PATTERNS)
IsSafe(match) == \E j \in 1..Len(SAFE_PATTERNS) : ReMatch(SAFE_PATTERNS[j], match)

\* meta.get(field, "")
Get(m, field) == IF field \in DOMAIN m THEN m[field] ELSE ""

\* t in s, for strings
Contains(s, t) ==
    \E i \in 1..(Len(s) - Len(t) + 1) : SubSeq(s, i, i + Len(t) - 1) = t

\* list.count(x)
Count(list, x) == Cardinality({i \in 1..Len(list) : list[i] = x})

\* A warning is the text of the line and, for the duplicates line, the set
\* that is formatted after it (a set prints its elements in no fixed order).
Warning(t) == [text |-> t, set |-> {}]

\* the warnings of one pattern on one field's text (lines 289-294)
RECURSIVE MatchWarnings(_, _, _)
MatchWarnings(field, label, matches) ==
    IF matches = <<>> THEN <<>>
    ELSE (IF IsSafe(Head(matches)) THEN <<>>
          ELSE <<Warning(WARN_MARK \o "  [" \o field \o "] contains " \o label
                         \o ": \"" \o Head(matches) \o "\"")>>)
         \o MatchWarnings(field, label, Tail(matches))

\* the warnings of the patterns k.. on one field's text (line 288)
RECURSIVE PatternWarnings(_, _, _)
PatternWarnings(field, text, k) ==
    IF k > Len(GUARDRAIL_PATTERNS) THEN <<>>
    ELSE MatchWarnings(field, GUARDRAIL_PATTERNS[k].label,
                       FindAll(GUARDRAIL_PATTERNS[k].pattern, text))
         \o PatternWarnings(field, text, k + 1)

text_fields == <<"description", "promotionalText", "whatsNew", "subtitle">>

\* the loop over the text fields k.. (lines 283-294): an empty or missing
\* field is passed over
RECURSIVE ScanWarnings(_, _)
ScanWarnings(m, k) ==
    IF k > Len(text_fields) THEN <<>>
    ELSE (IF Get(m, text_fields[k]) = "" THEN <<>>
          ELSE PatternWarnings(text_fields[k], Get(m, text_fields[k]), 1))
         \o ScanWarnings(m, k + 1)

\* the dict `limits`, in its order (lines 297-303)
limits ==
    <<[field |-> "subtitle", limit |-> 30],
      [field |-> "keywords", limit |-> 100],
      [field |-> "promotionalText", limit |-> 170],
      [field |-> "description", limit |-> 4000],
      [field |-> "whatsNew", limit |-> 4000]>>

\* OverLimit with >= for >
OverLimitInclusive(text, lim) == text # "" /\ Len(text) >= lim

\* whether a field's text is over its limit (line 306)
OverLimit(text, lim) == text # "" /\ Len(text) > lim

\* the loop over the limits k.. (lines 304-307)
RECURSIVE LimitWarnings(_, _)
LimitWarnings(m, k) ==
    IF k > Len(limits) THEN <<>>
    ELSE LET text == Get(m, limits[k].field)
         IN  (IF OverLimit(text, limits[k].limit)
              THEN <<Warning(BLOCK_MARK \o " [" \o limits[k].field \o "] exceeds "
                             \o ToString(limits[k].limit) \o " char limit ("
                             \o ToString(Len(text)) \o " chars)")>>
              ELSE <<>>)
             \o LimitWarnings(m, k + 1)

\* Dupes finding only a word that follows itself
DupesAdjacent(words) ==
    {words[i] : i \in {j \in 1..(Len(words) - 1) : words[j] = words[j + 1]}}

\* dupes = [w for w in words if words.count(w) > 1], as set(dupes)
Dupes(words) == {words[i] : i \in {j \in 1..Len(words) : Count(words, words[j]) > 1}}

\* the keywords checks (lines 310-317)
KeywordWarnings(m) ==
    LET kw == Get(m, "keywords")
        words == SplitOn(kw, ",")
    IN  IF kw = "" THEN <<>>
        ELSE (IF Contains(kw, " ,") \/ Contains(kw, ", ")
              THEN <<Warning(WARN_MARK
                             \o "  [keywords] has spaces around commas (wastes chars)")>>
              ELSE <<>>)
             \o (IF Dupes(words) # {}
                 THEN <<[text |-> WARN_MARK \o "  [keywords] duplicates: ",
                         set |-> Dupes(words)]>>
                 ELSE <<>>)

validate_metadata(m) ==
    ScanWarnings(m, 1) \o LimitWarnings(m, 1) \o KeywordWarnings(m)

\* validate_metadata that strips the keywords of the record it is given
ValidateCall_StripsKeywords(m) ==
    [returned |-> validate_metadata(m),
     meta |-> IF "keywords" \in DOMAIN m
              THEN [m EXCEPT !.keywords = Strip(@)] ELSE m,
     printed |-> <<>>]

\* What a call of validate_metadata does: the list it returns, the record as
\* the call leaves it (only meta.get reads it) and the lines it prints (none).
ValidateCall(m) ==
    [returned |-> validate_metadata(m), meta |-> m, printed |-> <<>>]

\* HasBlockers looking at the first warning only
HasBlockersFirstOnly(ws) == ws # <<>> /\ StartsWith(ws[1].text, BLOCK_MARK)

\* any(w.startswith(BLOCK_MARK) for w in warnings)
HasBlockers(ws) == \E i \in 1..Len(ws) : StartsWith(ws[i].text, BLOCK_MARK)

\* print(f"  {w}") for every warning
Indented(ws) == [i \in 1..Len(ws) |-> [ws[i] EXCEPT !.text = "  " \o @]]

\* enforce_guardrails with force not read: any warning denies
enforce_guardrails_NoForce(m, f) ==
    LET ws == validate_metadata(m)
    IN  [returned |-> <<ws = <<>> >>, printed |-> Indented(ws), warnings |-> ws]

\* enforce_guardrails with force read first: it returns before it prints
enforce_guardrails_QuietForce(m, f) ==
    LET ws == validate_metadata(m)
    IN  IF f /\ ~HasBlockers(ws)
        THEN [returned |-> <<TRUE>>, printed |-> <<>>, warnings |-> ws]
        ELSE [returned |-> <<ws = <<>> >>, printed |-> Indented(ws), warnings |-> ws]

\* What a call does: the values it returns (one, a bool), the lines it prints
\* and its local list `warnings`.
enforce_guardrails(m, f) ==
    LET ws == validate_metadata(m)
        shown == <<Warning("\n" \o SHIELD_MARK \o "  GUARDRAIL CHECK:")>>
                 \o Indented(ws) \o <<Warning("")>>
    IN  IF ws = <<>> THEN [returned |-> <<TRUE>>, printed |-> <<>>, warnings |-> ws]
        ELSE IF HasBlockers(ws)
        THEN [returned |-> <<FALSE>>, warnings |-> ws,
              printed |-> shown \o
                 <<Warning(BLOCK_MARK \o " Blocked: fix errors above before uploading.")>>]
        ELSE IF ~f
        THEN [returned |-> <<FALSE>>, warnings |-> ws,
              printed |-> shown \o
                 <<Warning(WARN_MARK \o "  Warnings found. Use --force to upload anyway."),
                   Warning("   Make sure all contact info, URLs, and handles are REAL and VERIFIED.")>>]
        ELSE [returned |-> <<TRUE>>, warnings |-> ws,
              printed |-> shown \o
                 <<Warning(WARN_MARK \o "  Proceeding with warnings (--force)")>>]

(***************************************************************************)
(* The inputs of the keyword synthesizer                                   *)
(***************************************************************************)
\* the longest feature-keyword list tried
MaxFeatures == 2
\* the limits tried are 0..MaxLimit and the default, 100
MaxLimit == 8
DEFAULT_KEYWORD_LIMIT == 100

\* the candidate words: a plural in capitals, two exceptions of no_deplural, a
\* three-letter word in "s" with blanks around it, a word with a comma left by
\* feat.lower().split() ("Save, Share")
FeatureWords == {"Maps", "news", "analysis", " gps ", "save,"}

\* all lists of at most n elements of S
ListsUpTo(S, n) == UNION {[1..k -> S] : k \in 0..n}

CATEGORY_KEYWORDS_PRODUCTIVITY ==
    <<"task", "todo", "organize", "plan", "schedule", "reminder", "notes",
      "project", "manage", "workflow", "focus", "timer", "goal", "habit", "routine">>

CategoryPools == {<<>>, <<"map", "gps">>, <<"notes", "plan", "save">>,
                  <<"fitness", "stocks", "news">>,
                  CATEGORY_KEYWORDS_PRODUCTIVITY}
TitleWordLists == {<<>>, <<"Map">>, <<"Save", "News">>}
SubtitleWordLists == {<<>>, <<"Plan", "GPS">>}
Limits == 0..MaxLimit \cup {DEFAULT_KEYWORD_LIMIT}

\* the variables of the other functions, while one function is run alone
IdleKw ==
    /\ feature_keywords = <<>> /\ category_keywords = <<>>
    /\ subtitle_words = <<>> /\ limit = DEFAULT_KEYWORD_LIMIT
    /\ ordered = NONE /\ new_keywords = NONE
IdleGuard ==
    /\ meta = <<>> /\ force = FALSE /\ warnings = NONE /\ allowed = NONE
    /\ stdout = <<>>
\* The JSON file at a path: missing, unreadable by json.load, or holding a
\* record.
NoFile == [state |-> "missing", record |-> <<>>]
MalformedFile == [state |-> "malformed", record |-> <<>>]
FileOf(record) == [state |-> "ok", record |-> record]

\* cmd_submit is not running
IdleSubmit ==
    /\ app_id = NONE /\ sub_id = NONE /\ ver_id = NONE /\ responses = <<>>

IdlePipe ==
    /\ project = NONE /\ apply = FALSE /\ file = NoFile /\ requests = <<>>

InitKeywords ==
    /\ pc = "build_keyword_field"
    /\ feature_keywords \in ListsUpTo(FeatureWords, MaxFeatures)
    /\ category_keywords \in CategoryPools
    /\ title_words \in TitleWordLists
    /\ subtitle_words \in SubtitleWordLists
    /\ limit \in Limits
    /\ ordered = NONE /\ new_keywords = NONE
    /\ analysis = NONE /\ app_name = NONE /\ keyword_words = <<>>
    /\ new_subtitle = NONE /\ new_description = NONE /\ new_promo = NONE
    /\ IdleGuard /\ IdlePipe
    /\ IdleSubmit

\* a call of build_keyword_field on the arguments: it returns the string, or
\* raises and returns nothing
BuildKeywordField ==
    /\ pc = "build_keyword_field"
    /\ LET r == build_keyword_field(feature_keywords, category_keywords,
                                    title_words, subtitle_words, limit)
       IN  /\ ordered' = r.ordered
           /\ new_keywords' = r.value
           /\ pc' = IF r.raised THEN "raised" ELSE "returned"
    /\ UNCHANGED <<pipeVars, feature_keywords, category_keywords, title_words,
                   subtitle_words, limit, copyVars, guardVars, submitVars>>

NextKeywords == BuildKeywordField

SpecKeywords == InitKeywords /\ [][NextKeywords]_vars

\* the comma-separated tokens of the returned keyword string
KeywordTokens == Range(SplitOn(new_keywords, ","))

\* C1: whenever build_keyword_field returns, the returned string, commas
\* included, is no longer than the limit it was given.
C1_LengthWithinLimit ==
    pc = "returned" => Len(new_keywords) <= limit

\* C1 witness: a call returned several keywords that fill the limit exactly,
\* having passed over a candidate that did not fit.
C1_Witness ==
    /\ pc = "returned"
    /\ Len(new_keywords) = limit
    /\ Cardinality(Positions(new_keywords, ",")) >= 1
    /\ Len(ordered) > Cardinality(Positions(new_keywords, ",")) + 1

\* C2 (as claimed): whenever build_keyword_field returns, no word of the
\* excluded set (the lowercased title and subtitle words) is a comma-separated
\* token of the returned string.
C2_NoExcludedToken ==
    pc = "returned" =>
        KeywordTokens \cap ExcludeSet(title_words, subtitle_words) = {}

(***************************************************************************)
(* The inputs of the guardrails                                            *)
(***************************************************************************)
\* how many characters over its limit an over-long field is
OverBy == 1

\* a text of n characters that no guardrail pattern matches any part of
Filler(n) == Rep("!", n)

\* the limit of a field in the table `limits`
LimitOf(field) ==
    limits[CHOOSE k \in 1..Len(limits) : limits[k].field = field].limit

\* a field at its limit and a field over it
AtLimit(field) == Filler(LimitOf(field))
OverLimitText(field) == Filler(LimitOf(field) + OverBy)

ShortDescriptions ==
    {NONE, "", "Plan your day.", "Questions? Write to help@zeph-app.io today."}
LongDescriptions == {AtLimit("description"), OverLimitText("description")}
PromoTexts ==
    {NONE, "Mail promo@zeph.app", AtLimit("promotionalText"),
     OverLimitText("promotionalText")}
ShortWhatsNew == {NONE, "Report bugs to qa.team@io.zeph.app"}
LongWhatsNew == {AtLimit("whatsNew"), OverLimitText("whatsNew")}
SubtitleTexts ==
    {NONE, "by dev@zeph.app", AtLimit("subtitle"), OverLimitText("subtitle")}
KeywordTexts ==
    {NONE, "fit,health", "fit,fit,health", "plan, plan,task,plan,task",
     OverLimitText("keywords")}

\* the record with the given fields; a field given as NONE is not in it
MetaOf(d, p, w, s, k) ==
    LET all == [description |-> d, promotionalText |-> p, whatsNew |-> w,
                subtitle |-> s, keywords |-> k]
    IN  [f \in {g \in DOMAIN all : all[g] # NONE} |-> all[f]]

\* the few values of the other fields that go with a 4000-character field
FewOthers ==
    {[p |-> p, s |-> s, k |-> k] :
        p \in {NONE},
        s \in {NONE, "by dev@zeph.app"},
        k \in {NONE, AtLimit("keywords")}}

\* The records tried: every combination of the short texts and of the fields
\* with a limit of at most 170, and the 4000-character fields with a few
\* values of the others.
MetaRecords ==
    {MetaOf(d, p, w, s, k) : d \in ShortDescriptions, p \in PromoTexts,
                             w \in ShortWhatsNew, s \in SubtitleTexts,
                             k \in KeywordTexts}
    \cup
    {MetaOf(d, o.p, w, o.s, o.k) : d \in LongDescriptions,
                                   w \in {NONE, OverLimitText("whatsNew")},
                                   o \in FewOthers}
    \cup
    {MetaOf(d, o.p, w, o.s, o.k) : d \in {NONE, "Plan your day."},
                                   w \in LongWhatsNew, o \in FewOthers}

InitGuardrails ==
    /\ pc = "guardrails"
    /\ meta \in MetaRecords
    /\ force \in BOOLEAN
    /\ warnings = NONE /\ allowed = NONE /\ stdout = <<>>
    /\ IdleKw /\ IdlePipe
    /\ title_words = <<>>
    /\ analysis = NONE /\ app_name = NONE /\ keyword_words = <<>>
    /\ new_subtitle = NONE /\ new_description = NONE /\ new_promo = NONE
    /\ IdleSubmit

\* a call of validate_metadata(meta)
ValidateMetadata ==
    /\ pc = "guardrails"
    /\ LET r == ValidateCall(meta)
       IN  /\ warnings' = r.returned
           /\ meta' = r.meta
           /\ stdout' = stdout \o r.printed
    /\ pc' = "validated"
    /\ UNCHANGED <<pipeVars, kwVars, title_words, copyVars, force, allowed,
                   submitVars>>

\* a call of enforce_guardrails(meta, force): `warnings` is its local list
EnforceGuardrails ==
    /\ pc = "guardrails"
    /\ LET r == enforce_guardrails(meta, force)
       IN  /\ allowed' = r.returned
           /\ stdout' = stdout \o r.printed
           /\ warnings' = r.warnings
    /\ pc' = "enforced"
    /\ UNCHANGED <<pipeVars, kwVars, title_words, copyVars, meta, force,
                   submitVars>>

NextGuardrails == ValidateMetadata \/ EnforceGuardrails

SpecGuardrails == InitGuardrails /\ [][NextGuardrails]_vars

(***************************************************************************)
(* Claims about the guardrails                                             *)
(***************************************************************************)
\* a BLOCK warning is an error line; a WARN warning is a warning line
IsBlock(w) == SubSeq(w.text, 1, 3) = BLOCK_MARK
IsWarn(w) == SubSeq(w.text, 1, 6) = WARN_MARK

\* the warning is tagged to the field: "[<field>]" follows its mark
TaggedTo(w, field) ==
    \/ StartsWith(w.text, BLOCK_MARK \o " [" \o field \o "]")
    \/ StartsWith(w.text, WARN_MARK \o "  [" \o field \o "]")

AnyBlock == \E i \in 1..Len(warnings) : IsBlock(warnings[i])
WarnOnly == warnings # <<>> /\ \A i \in 1..Len(warnings) : IsWarn(warnings[i])

\* C3: a record whose validation yields a BLOCK warning is denied, whatever
\* force is and whatever other warnings there are.
C3_BlockDenies ==
    (pc = "enforced" /\ AnyBlock) => allowed[1] = FALSE

\* C3 witness: a record with a BLOCK and a WARN warning was denied under force.
C3_Witness ==
    /\ pc = "enforced" /\ force /\ AnyBlock
    /\ \E i \in 1..Len(warnings) : IsWarn(warnings[i])
    /\ allowed[1] = FALSE

\* C4: a WARN-only record is denied without force and allowed with it; a
\* record with no warnings is allowed either way.
C4_WarnNeedsForce ==
    pc = "enforced" =>
        /\ WarnOnly => allowed[1] = force
        /\ warnings = <<>> => allowed[1] = TRUE

\* C4 witness: two WARN-only warnings were overridden by force.
C4_Witness ==
    pc = "enforced" /\ WarnOnly /\ Len(warnings) >= 2 /\ force /\ allowed[1] = TRUE

\* the warning was printed, indented by two blanks
Echoed(w) == \E j \in 1..Len(stdout) : stdout[j] = [w EXCEPT !.text = "  " \o @]

\* C5 (as claimed): enforce with force on a WARN-only record returns allow and
\* returns to the caller a diagnostics list that is not empty.
C5_ReturnsDiagnostics ==
    (pc = "enforced" /\ force /\ WarnOnly) =>
        /\ allowed[1] = TRUE
        /\ Len(allowed) >= 2
        /\ allowed[2] # <<>>

\* C5 (amended): enforce with force on a WARN-only record returns True and
\* nothing else, and every overridden warning was printed before the line
\* that says the upload proceeds.
C5_EchoesOverridden ==
    (pc = "enforced" /\ force /\ WarnOnly) =>
        /\ allowed = <<TRUE>>
        /\ \A i \in 1..Len(warnings) : Echoed(warnings[i])
        /\ stdout[Len(stdout)].text = WARN_MARK \o "  Proceeding with warnings (--force)"

\* C5 witness: an overridden email warning of the description is on stdout.
C5_Witness ==
    /\ pc = "enforced" /\ force /\ WarnOnly /\ allowed = <<TRUE>>
    /\ \E i \in 1..Len(warnings) :
          /\ TaggedTo(warnings[i], "description")
          /\ Echoed(warnings[i])

\* C6: for each field of the limit table there is a BLOCK warning of that
\* field exactly when the field is longer than its limit: subtitle 30,
\* keywords 100, promotionalText 170, description and whatsNew 4000.
C6_BlockIffOverLimit ==
    pc \in {"validated", "enforced"} =>
        \A ft \in {<<"subtitle", 30>>, <<"keywords", 100>>, <<"promotionalText", 170>>,
                   <<"description", 4000>>, <<"whatsNew", 4000>>} :
            (\E i \in 1..Len(warnings) :
                IsBlock(warnings[i]) /\ TaggedTo(warnings[i], ft[1]))
            <=> Len(Get(meta, ft[1])) > ft[2]

\* C6 witness: a subtitle one character over its limit got its BLOCK warning
\* while the promotional text, exactly at its limit, got none.
C6_Witness ==
    /\ pc = "validated"
    /\ Len(Get(meta, "subtitle")) = 30 + OverBy
    /\ Len(Get(meta, "promotionalText")) = 170
    /\ \E i \in 1..Len(warnings) : IsBlock(warnings[i]) /\ TaggedTo(warnings[i], "subtitle")
    /\ ~\E i \in 1..Len(warnings) : TaggedTo(warnings[i], "promotionalText")

\* A well-formed email address lies in s: a local part of letters, digits,
\* "_", "." and "-", an "@", a domain of such characters, a "." and a
\* top-level domain of at least two letters.
ContainsEmail(s) ==
    \E a \in Positions(s, "@") : \E d \in Positions(s, ".") :
        /\ a > 1 /\ CharAt(s, a - 1) \in WordChars \cup {".", "-"}
        /\ d > a + 1
        /\ \A j \in (a + 1)..(d - 1) : CharAt(s, j) \in WordChars \cup {".", "-"}
        /\ d + 2 <= Len(s)
        /\ CharAt(s, d + 1) \in LetterChars /\ CharAt(s, d + 2) \in LetterChars

\* C7: a scanned text field that contains a well-formed email address gets a
\* warning tagged to that field, one that names the email address.
C7_EmailWarned ==
    pc \in {"validated", "enforced"} =>
        \A f \in {"description", "promotionalText", "whatsNew", "subtitle"} :
            ContainsEmail(Get(meta, f)) =>
                \E i \in 1..Len(warnings) :
                    /\ TaggedTo(warnings[i], f)
                    /\ Contains(warnings[i].text, "contains email address: ")

\* C7 witness: the description and the subtitle both hold an email address and
\* each got its warning.
C7_Witness ==
    /\ pc = "validated"
    /\ ContainsEmail(Get(meta, "description")) /\ ContainsEmail(Get(meta, "subtitle"))
    /\ \E i \in 1..Len(warnings) : TaggedTo(warnings[i], "description")
    /\ \E i \in 1..Len(warnings) : TaggedTo(warnings[i], "subtitle")

\* the comma-separated tokens of the keywords field that occur more than once
RepeatedTokens ==
    LET words == SplitOn(Get(meta, "keywords"), ",")
    IN  {words[i] : i \in {j \in 1..Len(words) :
                              \E k \in 1..Len(words) : k # j /\ words[k] = words[j]}}

\* the duplicates warnings among the warnings
DuplicateWarnings ==
    {i \in 1..Len(warnings) :
        warnings[i].text = WARN_MARK \o "  [keywords] duplicates: "}

\* C8: there is a duplicates warning exactly when some comma-separated token
\* of the keywords occurs more than once, and the set it reports is the set of
\* the tokens that occur more than once.
C8_DuplicatesReported ==
    pc \in {"validated", "enforced"} =>
        /\ DuplicateWarnings # {} <=> RepeatedTokens # {}
        /\ \A i \in DuplicateWarnings : warnings[i].set = RepeatedTokens

\* C8 witness: "fit,fit,health" was reported with the set {"fit"}.
C8_Witness ==
    /\ pc = "validated"
    /\ Get(meta, "keywords") = "fit,fit,health"
    /\ \E i \in DuplicateWarnings : warnings[i].set = {"fit"}


\* ---------------------------------------------------------------------------
\* Copy generators: generate_subtitle, generate_description, generate_promo_text

SUBTITLE_LIMIT == 30
DESCRIPTION_LIMIT == 4000
PROMO_LIMIT == 170

\* list[:n]
Take(list, n) == SubSeq(list, 1, Min(Len(list), n))

\* the elements of list for which keep holds, in order
RECURSIVE Filter(_, _)
Filter(list, keep) ==
    IF list = <<>> THEN <<>>
    ELSE (IF Head(list) \in keep THEN <<Head(list)>> ELSE <<>>)
         \o Filter(Tail(list), keep)

\* ["- " + x for x in list]
Bullets(list) == [i \in 1..Len(list) |-> "- " \o list[i]]

\* the candidate phrases of the first category of the chain that is among the
\* hints, the generic phrases when none is
SubtitleCandidates(cats) ==
    IF InList("FINANCE", cats) THEN
        <<"Track Stocks & Markets", "Real-Time Market Data",
          "Smart Stock Tracker", "Portfolio & Dividends",
          "Live Market Watch", "Stock Alert & Tracker">>
    ELSE IF InList("HEALTH_AND_FITNESS", cats) THEN
        <<"Track Your Fitness Goals", "Smart Health Companion",
          "Daily Workout Planner", "Your Fitness Journey",
          "Health & Activity Log">>
    ELSE IF InList("PRODUCTIVITY", cats) THEN
        <<"Organize Your Day", "Smart Task Planner", "Get More Done Daily",
          "Plan & Focus Better", "Your Productivity Hub">>
    ELSE IF InList("MUSIC", cats) THEN
        <<"Tune & Practice Better", "Your Music Companion",
          "Practice Made Simple", "Master Your Sound">>
    ELSE IF InList("EDUCATION", cats) THEN
        <<"Study Smarter Daily", "Learn & Quiz Yourself", "Ace Every Test",
          "Your Study Companion">>
    ELSE IF InList("WRITING", cats) THEN
        <<"Write Without Limits", "Your Writing Studio",
          "Draft & Publish Easy", "Distraction-Free Editor">>
    ELSE IF InList("TRAVEL", cats) THEN
        <<"Explore & Plan Trips", "Your Travel Companion",
          "Discover New Places">>
    ELSE
        <<"Simple & Powerful", "Smart & Fast", "Built for You">>

\* the words of candidate c, lowercased, that are excluded words
Overlap(c, exclude) == LowerSet(SplitWhitespace(c)) \cap exclude

\* a candidate is taken when it fits the limit and at most one of its words is
\* an excluded word
Fits(c, exclude, lim) == Len(c) <= lim /\ Cardinality(Overlap(c, exclude)) <= 1

\* the subtitle when no candidate is taken is nothing at all
generate_subtitle_NoDegrade(an, tw, kw, lim) ==
    LET exclude == LowerSet(tw) \cup LowerSet(kw)
        candidates == SubtitleCandidates(an.category_hints)
        fit == {i \in 1..Len(candidates) : Fits(candidates[i], exclude, lim)}
    IN  IF fit # {} THEN candidates[MinOf(fit)] ELSE ""

\* generate_subtitle that returns the last candidate that fits
generate_subtitle_LastFit(an, tw, kw, lim) ==
    LET exclude == LowerSet(tw) \cup LowerSet(kw)
        candidates == SubtitleCandidates(an.category_hints)
        fit == {i \in 1..Len(candidates) : Fits(candidates[i], exclude, lim)}
    IN  IF fit # {} THEN candidates[CHOOSE i \in fit : \A k \in fit : k <= i]
        ELSE IF candidates # <<>> THEN Truncate(candidates[1], lim)
        ELSE ""

\* generate_subtitle (lines 826-859): the first candidate that fits, and the
\* first candidate cut to the limit when none does
generate_subtitle(an, tw, kw, lim) ==
    LET exclude == LowerSet(tw) \cup LowerSet(kw)
        candidates == SubtitleCandidates(an.category_hints)
        fit == {i \in 1..Len(candidates) : Fits(candidates[i], exclude, lim)}
    IN  IF fit # {} THEN candidates[MinOf(fit)]
        ELSE IF candidates # <<>> THEN Truncate(candidates[1], lim)
        ELSE ""

\* the opening paragraph of the description
Hook(cats, name) ==
    IF InList("FINANCE", cats) THEN
        "Stay on top of your investments with " \o name
        \o ". Get the market data you need, exactly when you need it. Track "
        \o "stocks, monitor your portfolio, and never miss an important "
        \o "market move."
    ELSE IF InList("HEALTH_AND_FITNESS", cats) THEN
        "Take control of your health journey with " \o name
        \o ". Whether you are tracking workouts, monitoring nutrition, or "
        \o "building better habits, everything you need is in one place."
    ELSE IF InList("PRODUCTIVITY", cats) THEN
        "Stop letting tasks slip through the cracks. " \o name
        \o " helps you organize, plan, and execute with clarity. Spend less "
        \o "time managing and more time doing."
    ELSE IF InList("MUSIC", cats) THEN
        "Level up your musical skills with " \o name
        \o ". From practice sessions to performance prep, get the tools you "
        \o "need to sound your best."
    ELSE IF InList("EDUCATION", cats) THEN
        "Study smarter, not harder. " \o name
        \o " gives you the tools to master any subject with confidence and "
        \o "efficiency."
    ELSE
        name
        \o " is designed to make your life easier. Simple, fast, and focused "
        \o "on what matters most to you."

\* the "Perfect for" paragraph of the description
PerfectFor(cats) ==
    IF InList("FINANCE", cats) THEN
        "Perfect for investors, day traders, financial advisors, and "
        \o "anyone who wants to stay informed about the markets."
    ELSE IF InList("HEALTH_AND_FITNESS", cats) THEN
        "Perfect for fitness enthusiasts, health-conscious individuals, "
        \o "and anyone starting their wellness journey."
    ELSE IF InList("PRODUCTIVITY", cats) THEN
        "Perfect for busy professionals, students, freelancers, and anyone "
        \o "who wants to get organized."
    ELSE IF InList("MUSIC", cats) THEN
        "Perfect for musicians, students, teachers, and anyone learning an "
        \o "instrument."
    ELSE
        "Perfect for anyone looking for a reliable, well-designed app that "
        \o "just works."

\* the sections appended for an app that sells a subscription
SubscriptionSections(name) ==
    <<name
      \o " offers a free version with core features. Unlock the full "
      \o "experience with a subscription that gives you access to all "
      \o "premium features.",
      "",
      "Payment will be charged to your Apple ID account at confirmation "
      \o "of purchase. Subscription automatically renews unless it is "
      \o "canceled at least 24 hours before the end of the current period. "
      \o "Your account will be charged for renewal within 24 hours prior to "
      \o "the end of the current period. You can manage and cancel your "
      \o "subscriptions by going to your account settings on the App Store "
      \o "after purchase.",
      "",
      "Terms of Use: "
      \o "https://www.apple.com/legal/internet-services/itunes/dev/stdeula/",
      "">>

\* the bullets of the features, then of the tabs that are not features
FeatureBullets(an) ==
    LET features == Take(an.features, 8)
        tabs == Filter(an.tab_names, Range(an.tab_names) \ Range(features))
    IN  Bullets(features) \o Bullets(tabs)

\* the bullets of the frameworks the project integrates
IntegrationFeatures(integrations) ==
    (IF InList("CloudKit", integrations) \/ InList("Firebase", integrations)
        THEN <<"- Seamless cloud sync across all your devices">> ELSE <<>>)
    \o (IF InList("WidgetKit", integrations)
        THEN <<"- Home screen widgets for quick access">> ELSE <<>>)
    \o (IF InList("HealthKit", integrations)
        THEN <<"- Apple Health integration for comprehensive tracking">>
        ELSE <<>>)
    \o (IF InList("Charts", integrations)
        THEN <<"- Beautiful charts and visual analytics">> ELSE <<>>)
    \o (IF InList("CoreML", integrations)
        THEN <<"- Smart, AI-powered insights">> ELSE <<>>)

\* the closing call to action
CallToAction(name) ==
    "Download " \o name \o " today and see the difference for yourself."

\* the sections of the description, one per line
Sections(an, name) ==
    LET feature_bullets == FeatureBullets(an)
        integration_features == IntegrationFeatures(an.integrations)
        cats == an.category_hints
    IN  <<Hook(cats, name), "">>
        \o (IF feature_bullets # <<>> \/ integration_features # <<>>
            THEN <<"KEY FEATURES">> \o Take(feature_bullets, 6)
                 \o integration_features \o <<"">>
            ELSE <<>>)
        \o <<PerfectFor(cats), "">>
        \o (IF an.has_subscription THEN SubscriptionSections(name)
            ELSE <<>>)
        \o <<CallToAction(name)>>

\* the description is returned whole, whatever its length
generate_description_Whole(an, name, subtitle, keywords_str, lim) ==
    Join(Sections(an, name), "\n")

generate_description(an, name, subtitle, keywords_str, lim) ==
    Truncate(Join(Sections(an, name), "\n"), lim)

\* the promotional sentence before it is cut to the limit; "^Ai" stands for the
\* three characters of the dash of the generic template
PromoTemplate(cats, name) ==
    IF InList("FINANCE", cats) THEN
        "Track stocks and markets in real time with " \o name
        \o ". Your investments, always at your fingertips. Try it now!"
    ELSE IF InList("HEALTH_AND_FITNESS", cats) THEN
        "Reach your fitness goals faster with " \o name
        \o ". Track workouts, monitor progress, and stay motivated. Start "
        \o "today!"
    ELSE IF InList("PRODUCTIVITY", cats) THEN
        "Get organized and stay productive with " \o name
        \o ". Plan your day, track your tasks, and achieve more. Try it free!"
    ELSE IF InList("MUSIC", cats) THEN
        "Practice smarter with " \o name
        \o ". Tune, track tempo, and improve your skills every day. Download "
        \o "now!"
    ELSE IF InList("EDUCATION", cats) THEN
        "Study smarter with " \o name
        \o ". Quiz yourself, track progress, and ace your exams. Get started "
        \o "today!"
    ELSE
        "Discover " \o name
        \o " ^Ai simple, powerful, and designed for you. Download now and see "
        \o "the difference!"

\* generate_promo_text that returns the text whole
generate_promo_text_Whole(an, name, lim) ==
    PromoTemplate(an.category_hints, name)


generate_promo_text(an, name, lim) ==
    Truncate(PromoTemplate(an.category_hints, name), lim)

\* ---------------------------------------------------------------------------
\* The copy generators on bounded inputs

MaxNameWords == 800

\* app names: the stand-in for a missing title, short ones, one long enough
\* to push the promotional text over its limit, one long enough to push the
\* description over its limit
AppNames ==
    {"App", "Zeph", "Stock Pro", Rep("Zeph ", 16), Rep("Zeph ", MaxNameWords)}

FeatureLists ==
    {<<>>, <<"Dashboard", "Settings">>,
     <<"Dashboard", "Settings", "Profile", "Search", "History", "Favorites",
       "Alerts", "Reports", "Export">>}

TabLists == {<<>>, <<"Home", "Dashboard">>}

IntegrationLists ==
    {<<>>, <<"StoreKit", "CloudKit">>,
     <<"HealthKit", "CoreML", "WidgetKit", "Charts", "Firebase">>}

\* the categories the text of the code can hint at
CodeHints ==
    {<<>>, <<"FINANCE">>, <<"HEALTH_AND_FITNESS">>, <<"PRODUCTIVITY">>,
     <<"EDUCATION">>, <<"MUSIC">>, <<"WRITING">>, <<"MUSIC", "FINANCE">>}

\* the categories the integrated frameworks hint at
FrameworkHints(integrations) ==
    (IF InList("HealthKit", integrations) THEN <<"HEALTH_AND_FITNESS">>
     ELSE <<>>)
    \o (IF InList("MusicKit", integrations) THEN <<"MUSIC">> ELSE <<>>)
    \o (IF InList("MapKit", integrations) \/ InList("CoreLocation", integrations)
        THEN <<"TRAVEL">> ELSE <<>>)

\* the analysis analyze_project builds from what it detected: the subscription
\* flag follows the frameworks, the hints are those of the frameworks and of
\* the code, each once
AnalysisOf(features, tabs, integrations, hints) ==
    LET fw == FrameworkHints(integrations)
    IN  [features |-> features,
         tab_names |-> tabs,
         integrations |-> integrations,
         has_subscription |-> InList("RevenueCat", integrations)
                              \/ InList("StoreKit", integrations),
         category_hints |-> fw \o Filter(hints, Range(hints) \ Range(fw))]

Analyses ==
    {AnalysisOf(f, t, i, h) : f \in FeatureLists, t \in TabLists,
                              i \in IntegrationLists, h \in CodeHints}
    \cup {AnalysisOf(<<>>, <<>>, <<"MapKit">>, <<>>)}

\* title words and keyword words given to generate_subtitle
WordLists ==
    {<<<<>>, <<>>>>,
     <<<<"Simple", "Smart", "Built">>, <<"powerful", "fast", "you">>>>,
     <<<<"Track", "Stocks">>, <<"market", "data", "stock", "tracker">>>>,
     <<<<"Your", "Daily">>, <<"smart", "planner", "companion", "task">>>>}

InitCopy ==
    /\ pc = "generate_subtitle"
    /\ analysis \in Analyses
    /\ app_name \in AppNames
    /\ \E w \in WordLists : title_words = w[1] /\ keyword_words = w[2]
    /\ new_subtitle = NONE /\ new_description = NONE /\ new_promo = NONE
    /\ IdleKw /\ IdleGuard /\ IdlePipe
    /\ IdleSubmit

\* new_subtitle = generate_subtitle(analysis, title_words, kw_words)
GenerateSubtitle ==
    /\ pc = "generate_subtitle"
    /\ new_subtitle' = generate_subtitle(analysis, title_words, keyword_words,
                                         SUBTITLE_LIMIT)
    /\ pc' = "generate_description"
    /\ UNCHANGED <<pipeVars, analysis, app_name, keyword_words, new_description, new_promo,
                   title_words, kwVars, guardVars, submitVars>>

\* new_description = generate_description(analysis, app_name, new_subtitle,
\* new_keywords)
GenerateDescription ==
    /\ pc = "generate_description"
    /\ new_description' = generate_description(analysis, app_name, new_subtitle,
                                               new_keywords, DESCRIPTION_LIMIT)
    /\ pc' = "generate_promo_text"
    /\ UNCHANGED <<pipeVars, analysis, app_name, keyword_words, new_subtitle, new_promo,
                   title_words, kwVars, guardVars, submitVars>>

\* new_promo = generate_promo_text(analysis, app_name)
GeneratePromoText ==
    /\ pc = "generate_promo_text"
    /\ new_promo' = generate_promo_text(analysis, app_name, PROMO_LIMIT)
    /\ pc' = "generated"
    /\ UNCHANGED <<pipeVars, analysis, app_name, keyword_words, new_subtitle,
                   new_description, title_words, kwVars, guardVars,
                   submitVars>>

NextCopy == GenerateSubtitle \/ GenerateDescription \/ GeneratePromoText

SpecCopy == InitCopy /\ [][NextCopy]_vars

\* ---------------------------------------------------------------------------
\* Claims on the copy generators

SubtitleDone == pc \in {"generate_description", "generate_promo_text", "generated"}
DescriptionDone == pc \in {"generate_promo_text", "generated"}
PromoDone == pc = "generated"

\* C9: the generated fields stay within their budgets: the subtitle has at
\* most 30 characters, the promotional text at most 170 and the description
\* at most 4000.
C9_WithinBudgets ==
    /\ SubtitleDone => Len(new_subtitle) <= 30
    /\ DescriptionDone => Len(new_description) <= 4000
    /\ PromoDone => Len(new_promo) <= 170

\* C9 witness: the three fields were generated for an app name whose
\* promotional sentence and whose description exceed their budgets, and both
\* came back cut to exactly the budget.
C9_Witness ==
    /\ PromoDone
    /\ Len(PromoTemplate(analysis.category_hints, app_name)) > 170
    /\ Len(new_promo) = 170
    /\ Len(Join(Sections(analysis, app_name), "\n")) > 4000
    /\ Len(new_description) = 4000
    /\ new_subtitle # "" /\ Len(new_subtitle) <= 30

\* the generic phrases and sentences, as the fields show them
GenericSubtitles == {"Simple & Powerful", "Smart & Fast", "Built for You"}
GenericHook ==
    app_name \o " is designed to make your life easier. Simple, fast, and "
    \o "focused on what matters most to you."
GenericPromo ==
    "Discover " \o app_name \o " ^Ai simple, powerful, and designed for you. "
    \o "Download now and see the difference!"

\* C10: for an analysis with no category hint the three generators return
\* non-empty strings taken from the generic templates: the subtitle is one of
\* the generic phrases, the description opens with the generic hook and the
\* promotional text is the generic sentence, each cut to its budget.
C10_GenericFallback ==
    (SubtitleDone /\ analysis.category_hints = <<>>) =>
        /\ new_subtitle \in GenericSubtitles
        /\ DescriptionDone =>
            /\ new_description # ""
            /\ StartsWith(new_description, Truncate(GenericHook, 4000))
        /\ PromoDone =>
            /\ new_promo # ""
            /\ new_promo = Truncate(GenericPromo, 170)

\* C10 witness: with no category hint and every generic phrase sharing two
\* words with the title and keyword words, the first generic phrase was
\* returned and the other two fields were generated from the generic
\* templates.
C10_Witness ==
    /\ PromoDone
    /\ analysis.category_hints = <<>>
    /\ \A c \in GenericSubtitles :
          Cardinality(Overlap(c, LowerSet(title_words) \cup LowerSet(keyword_words))) >= 2
    /\ new_subtitle = "Simple & Powerful"
    /\ app_name = "Zeph"
    /\ StartsWith(new_description, "Zeph is designed to make your life easier.")
    /\ StartsWith(new_promo, "Discover Zeph ")

\* the auto-renewal disclosure of the subscription paragraph
AutoRenewalSentence ==
    "Subscription automatically renews unless it is canceled at least 24 "
    \o "hours before the end of the current period."

\* C11: the generated description contains the auto-renewal disclosure
\* sentence when the analysis has a subscription and does not contain it when
\* the analysis has none.
C11_DisclosureIffSubscription ==
    DescriptionDone =>
        (Contains(new_description, AutoRenewalSentence)
            <=> analysis.has_subscription)

\* the description of an app with a subscription whose text was cut before
\* the disclosure
C11_DisclosureCut ==
    /\ DescriptionDone
    /\ analysis.has_subscription
    /\ Contains(Join(Sections(analysis, app_name), "\n"), AutoRenewalSentence)
    /\ Len(new_description) = 4000
    /\ ~Contains(new_description, AutoRenewalSentence)

\* ---------------------------------------------------------------------------
\* Further claims on build_keyword_field

\* the candidates as the loops see them: kw.lower().strip()
Normalized(list) == {Lower(Strip(list[i])) : i \in 1..Len(list)}

\* a word of the exception list, or one that ends in "ss", "us" or "is"
ExemptFromSingular(kw) ==
    \/ kw \in {"news", "analysis", "stocks", "this", "plus", "focus", "canvas",
               "status", "virus", "bus", "gas", "atlas", "bias", "axis"}
    \/ EndsWith(kw, "ss") \/ EndsWith(kw, "us") \/ EndsWith(kw, "is")

\* kw without its last letter
Chop(kw) == SubSeq(kw, 1, Len(kw) - 1)

\* C12: a candidate of the exception list, or one that ends in "ss", "us" or
\* "is", is never shortened, whether it comes from the feature keywords or
\* from the category pool: its shortened form is neither among the ordered
\* candidates nor a token of the result, and unless it is an excluded word the
\* candidate itself is among the ordered candidates.
C12_ExceptionsIntact ==
    pc = "returned" =>
        \A kw \in Normalized(feature_keywords) \cup Normalized(category_keywords) :
            (ExemptFromSingular(kw) /\ EndsWith(kw, "s")) =>
                /\ Chop(kw) \notin Range(ordered)
                /\ Chop(kw) \notin KeywordTokens
                /\ kw \notin ExcludeSet(title_words, subtitle_words)
                      => kw \in Range(ordered)

\* C12 witness: "analysis" from the feature keywords and "fitness" and
\* "stocks" from the category pool are tokens of the result.
C12_Witness ==
    /\ pc = "returned"
    /\ "analysis" \in Normalized(feature_keywords)
    /\ "fitness" \in Normalized(category_keywords)
    /\ {"analysis", "fitness", "stocks"} \subseteq KeywordTokens

\* ---------------------------------------------------------------------------
\* validate_metadata called twice on the same record

\* the records of short texts, and among the keywords one with blanks around
InitValidateTwice ==
    /\ pc = "guardrails"
    /\ meta \in {MetaOf(d, p, w, s, k) :
                    d \in ShortDescriptions, p \in PromoTexts,
                    w \in ShortWhatsNew, s \in SubtitleTexts,
                    k \in KeywordTexts \cup {" fit,health "}}
    /\ force = FALSE
    /\ warnings = NONE /\ allowed = NONE /\ stdout = <<>>
    /\ IdleKw /\ IdlePipe
    /\ title_words = <<>>
    /\ analysis = NONE /\ app_name = NONE /\ keyword_words = <<>>
    /\ new_subtitle = NONE /\ new_description = NONE /\ new_promo = NONE
    /\ IdleSubmit

\* a second call of validate_metadata on the record the first call was given
ValidateMetadataAgain ==
    /\ pc = "validated"
    /\ LET r == ValidateCall(meta)
       IN  /\ warnings' = r.returned
           /\ meta' = r.meta
           /\ stdout' = stdout \o r.printed
    /\ pc' = "validated_again"
    /\ UNCHANGED <<pipeVars, kwVars, title_words, copyVars, force, allowed,
                   submitVars>>

NextValidateTwice == ValidateMetadata \/ ValidateMetadataAgain

SpecValidateTwice == InitValidateTwice /\ [][NextValidateTwice]_vars

C19_OutputIsPrefix ==
    pc = "returned" =>
        \E k \in 0..Len(ordered) : new_keywords = Join(SubSeq(ordered, 1, k), ",")

\* a call that went on after a candidate that did not fit: "news,map", with
\* "analysis" passed over
C19_PassedOver ==
    /\ pc = "returned"
    /\ Len(ordered) >= 3
    /\ SubSeq(ordered, 1, 3) = <<"news", "analysis", "map">>
    /\ limit = 8
    /\ new_keywords = "news,map"

\* the tokens of the returned string, in order
TokenList == SplitOn(new_keywords, ",")

\* the candidate kw, or what is left of it without its plural "s", is token t
DerivedFrom(t, kw) ==
    LET c == Lower(Strip(kw)) IN t = c \/ t = Singular(c)

FeatureDerived(t) ==
    \E i \in 1..Len(feature_keywords) : DerivedFrom(t, feature_keywords[i])

\* the first place in list of a candidate that token t derives from
FirstPlace(t, list) == MinOf({i \in 1..Len(list) : DerivedFrom(t, list[i])} \cup {Len(list) + 1})

\* C20 (as claimed): the tokens of the returned string are pairwise distinct,
\* every token derived from a feature keyword precedes every token derived
\* only from the category pool, and within each group the tokens keep the
\* order in which their candidates first occur in the input.
C20_DedupedAndOrdered ==
    pc = "returned" =>
        \A i, j \in 1..Len(TokenList) :
            i < j =>
                /\ TokenList[i] # TokenList[j]
                /\ FeatureDerived(TokenList[j]) => FeatureDerived(TokenList[i])
                /\ (FeatureDerived(TokenList[i]) /\ FeatureDerived(TokenList[j])) =>
                      FirstPlace(TokenList[i], feature_keywords)
                         < FirstPlace(TokenList[j], feature_keywords)
                /\ (~FeatureDerived(TokenList[i]) /\ ~FeatureDerived(TokenList[j])) =>
                      FirstPlace(TokenList[i], category_keywords)
                         < FirstPlace(TokenList[j], category_keywords)

\* a call that returned the token "save" twice: once cut out of the candidate
\* "save," by the comma, once as the candidate "save" of the category pool
C20_TokenTwice ==
    /\ pc = "returned"
    /\ new_keywords = "save,,note,plan,save"

\* no candidate holds a comma
NoCommaInput ==
    \A kw \in Range(feature_keywords) \cup Range(category_keywords) :
        Positions(kw, ",") = {}

\* C20 for candidates that hold no comma
C20_WithoutCommas == NoCommaInput => C20_DedupedAndOrdered

(***************************************************************************)
(* The publisher: cmd_set                                                  *)
(***************************************************************************)
\* a request sent through api(method, path, payload)
Request(method, path, payload) ==
    [method |-> method, path |-> path, payload |-> payload]

\* the record restricted to the keys of a list (lines 159-162)
Restrict(m, keys) == [k \in DOMAIN m \cap Range(keys) |-> m[k]]

ver_keys == <<"description", "keywords", "promotionalText", "whatsNew">>

\* cmd_set that goes on when enforce_guardrails denies
CmdSetStart_NoExit(f, frc) ==
    IF f.state # "ok"
    THEN [outcome |-> "raised", meta |-> <<>>, guard |-> [returned |-> NONE,
          printed |-> <<>>, warnings |-> NONE]]
    ELSE [outcome |-> "proceeds", meta |-> f.record,
          guard |-> enforce_guardrails(f.record, frc)]

\* The start of cmd_set (lines 127-131): the file is opened and loaded, which
\* raises when it is missing or malformed; the record goes through
\* enforce_guardrails and the process exits when that denies.
CmdSetStart(f, frc) ==
    IF f.state # "ok"
    THEN [outcome |-> "raised", meta |-> <<>>, guard |-> [returned |-> NONE,
          printed |-> <<>>, warnings |-> NONE]]
    ELSE LET g == enforce_guardrails(f.record, frc)
         IN  [outcome |-> IF g.returned[1] THEN "proceeds" ELSE "exited",
              meta |-> f.record, guard |-> g]

\* what the store answers to a GET: nothing (an HTTP error), an empty list,
\* or data
Answers == {"none", "empty", "data"}

\* with open(json_file) ... json.load ... enforce_guardrails ... sys.exit(1)
CmdSetLoad ==
    /\ pc = "cmd_set"
    /\ LET r == CmdSetStart(file, force)
       IN  /\ meta' = r.meta
           /\ allowed' = r.guard.returned
           /\ warnings' = r.guard.warnings
           /\ stdout' = stdout \o r.guard.printed
           /\ pc' = CASE r.outcome = "raised" -> "set_raised"
                      [] r.outcome = "exited" -> "set_exited"
                      [] OTHER -> "get_versions"
    /\ UNCHANGED <<pipeVars, kwVars, title_words, copyVars, force, submitVars>>

\* versions = api("GET", .../appStoreVersions...) (lines 136-142)
GetVersions ==
    /\ pc = "get_versions"
    /\ requests' = Append(requests,
                          Request("GET", "/apps/{app_id}/appStoreVersions", <<>>))
    /\ \E answer \in Answers :
          IF answer = "data"
          THEN /\ pc' = "get_localizations"
               /\ stdout' = Append(stdout, Warning("Version: "))
          ELSE /\ pc' = "set_returned"
               /\ stdout' = Append(stdout, Warning("No versions found"))
    /\ UNCHANGED <<project, apply, file, kwVars, title_words, copyVars, meta,
                   force, warnings, allowed, submitVars>>

\* locs = api("GET", .../appStoreVersionLocalizations) and the search for the
\* localization of the record's locale (lines 145-155)
GetLocalizations ==
    /\ pc = "get_localizations"
    /\ requests' = Append(requests,
          Request("GET", "/appStoreVersions/{ver_id}/appStoreVersionLocalizations", <<>>))
    /\ \E answer \in Answers :
          IF answer = "data"
          THEN pc' = "patch_version" /\ stdout' = stdout
          ELSE /\ pc' = "set_returned"
               /\ stdout' = Append(stdout,
                     Warning("No " \o (IF "locale" \in DOMAIN meta THEN meta.locale
                                       ELSE "en-US") \o " localization found"))
    /\ UNCHANGED <<project, apply, file, kwVars, title_words, copyVars, meta,
                   force, warnings, allowed, submitVars>>

\* the PATCH of the version localization, when the record holds one of its
\* keys (lines 158-173)
PatchVersion ==
    /\ pc = "patch_version"
    /\ LET ver_attrs == Restrict(meta, ver_keys)
       IN  IF DOMAIN ver_attrs # {}
           THEN /\ requests' = Append(requests,
                      Request("PATCH", "/appStoreVersionLocalizations/{loc_id}",
                              ver_attrs))
                /\ \E result \in BOOLEAN :
                      stdout' = IF result
                                THEN Append(stdout, Warning("Version metadata updated"))
                                ELSE stdout
           ELSE UNCHANGED <<requests, stdout>>
    /\ pc' = "subtitle"
    /\ UNCHANGED <<project, apply, file, kwVars, title_words, copyVars, meta,
                   force, warnings, allowed, submitVars>>

\* infos = api("GET", .../appInfos), when the record holds a subtitle
\* (lines 176-178)
GetInfos ==
    /\ pc = "subtitle"
    /\ IF "subtitle" \in DOMAIN meta
       THEN /\ requests' = Append(requests,
                                  Request("GET", "/apps/{app_id}/appInfos", <<>>))
            /\ \E answer \in Answers :
                  pc' = IF answer = "data" THEN "get_info_localizations"
                        ELSE "categories"
       ELSE pc' = "categories" /\ requests' = requests
    /\ UNCHANGED <<project, apply, file, kwVars, title_words, copyVars, guardVars,
                   submitVars>>

\* info_locs = api("GET", .../appInfoLocalizations) and the search for the
\* localization of the record's locale (lines 179-183)
GetInfoLocalizations ==
    /\ pc = "get_info_localizations"
    /\ requests' = Append(requests,
          Request("GET", "/appInfos/{info_id}/appInfoLocalizations", <<>>))
    /\ \E answer \in Answers :
          pc' = IF answer = "data" THEN "patch_subtitle" ELSE "categories"
    /\ UNCHANGED <<project, apply, file, kwVars, title_words, copyVars, guardVars,
                   submitVars>>

\* the PATCH of the subtitle (lines 184-193)
PatchSubtitle ==
    /\ pc = "patch_subtitle"
    /\ requests' = Append(requests,
          Request("PATCH", "/appInfoLocalizations/{iloc_id}",
                  [subtitle |-> meta.subtitle]))
    /\ \E result \in BOOLEAN :
          stdout' = IF result
                    THEN Append(stdout, Warning("Subtitle set: " \o meta.subtitle))
                    ELSE stdout
    /\ pc' = "categories"
    /\ UNCHANGED <<project, apply, file, kwVars, title_words, copyVars, meta,
                   force, warnings, allowed, submitVars>>

\* the categories (lines 196-219): when the record holds a primary category,
\* infos = api("GET", .../appInfos) and, when that comes with data, the PATCH
\* of the categories
SetCategories ==
    /\ pc = "categories"
    /\ IF "primaryCategory" \in DOMAIN meta
       THEN \E answer \in Answers, result \in BOOLEAN :
               IF answer = "data"
               THEN /\ requests' = requests \o
                        <<Request("GET", "/apps/{app_id}/appInfos", <<>>),
                          Request("PATCH", "/appInfos/{info_id}",
                                  Restrict(meta, <<"primaryCategory",
                                                   "secondaryCategory">>))>>
                    /\ stdout' = IF result
                                 THEN Append(stdout, Warning("Categories set: "
                                         \o meta.primaryCategory
                                         \o (IF "secondaryCategory" \in DOMAIN meta
                                             THEN " + " \o meta.secondaryCategory
                                             ELSE "")))
                                 ELSE stdout
               ELSE /\ requests' = Append(requests,
                           Request("GET", "/apps/{app_id}/appInfos", <<>>))
                    /\ stdout' = stdout
       ELSE requests' = requests /\ stdout' = stdout
    /\ pc' = "set_returned"
    /\ UNCHANGED <<project, apply, file, kwVars, title_words, copyVars, meta,
                   force, warnings, allowed, submitVars>>

CmdSet ==
    \/ CmdSetLoad
    \/ GetVersions \/ GetLocalizations \/ PatchVersion
    \/ GetInfos \/ GetInfoLocalizations \/ PatchSubtitle
    \/ SetCategories

\* the files cmd_set is run on: none, an unreadable one, and records with no
\* warning, with warnings only, with an error, with both, with a subtitle
\* alone, with categories and a locale, with nothing
SetRecords ==
    {[description |-> "Plan your day.", keywords |-> "fit,health",
      subtitle |-> "Plan better"],
     [description |-> "Questions? Write to help@zeph-app.io today.",
      promotionalText |-> "Mail promo@zeph.app", subtitle |-> "Plan better"],
     [description |-> "Plan your day.", subtitle |-> OverLimitText("subtitle")],
     [description |-> "Questions? Write to help@zeph-app.io today.",
      keywords |-> OverLimitText("keywords")],
     [subtitle |-> "Plan better"],
     [locale |-> "fr-FR", whatsNew |-> "Faster.", primaryCategory |-> "PRODUCTIVITY",
      secondaryCategory |-> "UTILITIES"],
     [primaryCategory |-> "PRODUCTIVITY"],
     <<>>}

InitSet ==
    /\ pc = "cmd_set"
    /\ file \in {NoFile, MalformedFile} \cup {FileOf(r) : r \in SetRecords}
    /\ force \in BOOLEAN
    /\ meta = <<>> /\ warnings = NONE /\ allowed = NONE /\ stdout = <<>>
    /\ project = NONE /\ apply = FALSE /\ requests = <<>>
    /\ IdleKw
    /\ title_words = <<>>
    /\ analysis = NONE /\ app_name = NONE /\ keyword_words = <<>>
    /\ new_subtitle = NONE /\ new_description = NONE /\ new_promo = NONE
    /\ IdleSubmit

NextSet == CmdSet

SpecSet == InitSet /\ [][NextSet]_vars

\* enforce_guardrails denies the loaded record: an error, or a warning
\* without force
Denied == AnyBlock \/ (warnings # <<>> /\ ~force)

\* C16: when the record file cannot be loaded or enforce_guardrails denies
\* the record, cmd_set ends (by the exception or by sys.exit) having sent no
\* request at all to the store API.
C16_NoRequestWhenDenied ==
    /\ file.state # "ok" =>
          pc \in {"cmd_set", "set_raised"} /\ requests = <<>>
    /\ (pc # "cmd_set" /\ file.state = "ok" /\ Denied) =>
          pc = "set_exited" /\ requests = <<>>
    /\ pc \in {"set_raised", "set_exited"} => requests = <<>>

\* C16 witness: a record with warnings only was denied without force and the
\* process exited with nothing sent, though the record holds fields of both
\* PATCH requests.
C16_Witness ==
    /\ pc = "set_exited"
    /\ WarnOnly /\ ~force
    /\ {"description", "subtitle"} \subseteq DOMAIN meta
    /\ requests = <<>>

(***************************************************************************)
(* The project analyzer and the keyword extraction                         *)
(***************************************************************************)
\* the structural words that are dropped from view and model names (line 759)
structural_words ==
    {"view", "model", "screen", "cell", "row", "item",
     "list", "detail", "main", "app", "content", "data", "helper",
     "manager", "service", "provider", "coordinator", "state", "type",
     "error", "loading", "frame", "button", "text", "image", "color",
     "font", "stack", "group", "section", "header", "footer", "body",
     "picker", "toggle", "sheet", "alert", "action", "handler", "delegate",
     "protocol", "extension", "private", "public", "static", "func",
     "enum", "case", "default", "return", "self", "super", "init", "class",
     "struct", "var", "let", "from", "with", "into", "over", "remove",
     "add", "update", "delete", "fetch", "load", "save", "set", "get",
     "new", "old", "info", "config", "setting", "option", "value",
     "result", "response", "request", "param", "arg", "sidebar", "tab",
     "bar", "nav", "navigation", "container", "wrapper", "overlay",
     "background", "foreground", "padding", "spacing", "toolbar", "menu",
     "popover", "modal", "scroll", "form", "field", "label", "icon",
     "badge", "progress", "indicator", "placeholder"}

\* the stop words of the keyword extraction (line 763)
stop_words ==
    {"the", "and", "for", "are", "but", "not", "you", "all",
     "can", "had", "her", "was", "one", "our", "out", "has", "have",
     "from", "with", "into", "over", "your", "this", "that", "will",
     "each", "make", "like", "just", "them", "than", "been", "said", "its",
     "about", "other", "which", "their", "time", "very", "when", "come",
     "could", "made", "after", "remove", "add", "update", "delete", "new",
     "old", "set", "get", "show", "hide", "open", "close", "start", "stop",
     "save", "load", "edit", "create", "none", "some", "true", "false",
     "error", "success", "failed", "loading", "disclaimer", "yahoo",
     "google", "apple", "setting", "settings", "configure", "statistic",
     "statistics"}

\* the table FRAMEWORK_KEYWORDS, in its order (lines 636-650)
FRAMEWORK_KEYWORDS ==
    <<[framework |-> "RevenueCat",
       keywords |-> <<"subscription", "premium", "pro">>],
      [framework |-> "StoreKit",
       keywords |-> <<"subscription", "premium", "purchase">>],
      [framework |-> "HealthKit",
       keywords |-> <<"health", "activity", "step", "heart", "workout">>],
      [framework |-> "CloudKit",
       keywords |-> <<"sync", "cloud", "backup">>],
      [framework |-> "CoreLocation",
       keywords |-> <<"location", "map", "nearby", "gps">>],
      [framework |-> "MapKit",
       keywords |-> <<"map", "location", "navigate", "direction">>],
      [framework |-> "CoreML",
       keywords |-> <<"ai", "smart", "intelligent", "predict">>],
      [framework |-> "AVFoundation",
       keywords |-> <<"audio", "video", "camera", "record">>],
      [framework |-> "MusicKit",
       keywords |-> <<"music", "playlist", "song", "album">>],
      [framework |-> "WeatherKit",
       keywords |-> <<"weather", "forecast", "temperature", "rain">>],
      [framework |-> "WidgetKit",
       keywords |-> <<"widget", "home", "glance">>],
      [framework |-> "Charts",
       keywords |-> <<"chart", "graph", "visual", "analytics">>],
      [framework |-> "Firebase",
       keywords |-> <<"sync", "cloud", "realtime">>]>>

\* the table CATEGORY_KEYWORDS (lines 620-633); a category that is not in it
\* has no keywords (CATEGORY_KEYWORDS.get(cat, []))
CATEGORY_KEYWORDS(cat) ==
    CASE cat = "HEALTH_AND_FITNESS" ->
            <<"workout", "fitness", "health", "diet", "nutrition", "weight",
              "exercise", "gym", "wellness", "body", "calorie", "step",
              "activity", "training", "cardio">>
      [] cat = "FOOD_AND_DRINK" ->
            <<"recipe", "cook", "meal", "food", "diet", "nutrition", "restaurant",
              "kitchen", "ingredient", "grocery", "eat", "drink",
              "healthy", "plan", "prep">>
      [] cat = "PRODUCTIVITY" -> CATEGORY_KEYWORDS_PRODUCTIVITY
      [] cat = "FINANCE" ->
            <<"stock", "invest", "portfolio", "market", "trade", "finance", "money",
              "budget", "wealth", "dividend", "ticker", "crypto",
              "savings", "expense", "bank">>
      [] cat = "MUSIC" ->
            <<"tuner", "metronome", "guitar", "piano", "music", "practice",
              "instrument", "pitch", "tempo", "rhythm", "chord", "song",
              "audio", "ear", "scale">>
      [] cat = "TRAVEL" ->
            <<"travel", "trip", "country", "map", "explore", "adventure", "journey",
              "vacation", "visit", "destination", "flight", "hotel",
              "guide", "passport", "bucket">>
      [] cat = "EDUCATION" ->
            <<"study", "learn", "quiz", "test", "exam", "practice", "flashcard",
              "education", "knowledge", "prep", "tutor", "course",
              "lesson", "review", "grade">>
      [] cat = "UTILITIES" ->
            <<"tool", "utility", "convert", "calculate", "scan", "widget", "shortcut",
              "clipboard", "backup", "file", "storage", "clean", "battery",
              "vpn", "qr">>
      [] cat = "SOCIAL_NETWORKING" ->
            <<"social", "chat", "message", "friend", "share", "connect", "community",
              "group", "profile", "follow", "feed", "post", "story",
              "network", "dating">>
      [] cat = "ENTERTAINMENT" ->
            <<"game", "fun", "watch", "stream", "video", "movie", "show", "meme",
              "trivia", "puzzle", "play", "comedy", "cartoon", "anime",
              "fan">>
      [] cat = "LIFESTYLE" ->
            <<"journal", "diary", "mood", "gratitude", "mindful", "meditation",
              "sleep", "relax", "self", "care", "style", "fashion", "home",
              "decor", "personal">>
      [] cat = "WRITING" ->
            <<"write", "editor", "note", "markdown", "journal", "blog", "publish",
              "text", "document", "draft", "story", "prose", "author",
              "outline", "creative">>
      [] OTHER -> <<>>

\* What analyze_project reads off a source tree: the names of the files that
\* declare a view and of those that declare a model, one for every such file
\* in the order glob lists them; the matches of the tab patterns and of the
\* feature patterns in the code, in the order they are found; and all_code,
\* the text of the Swift files one after the other.  A root path that does
\* not exist gives MissingTree: no file, no code.
Tree(views, models, tabs, features, code) ==
    [view_names |-> views, model_names |-> models, tab_matches |-> tabs,
     feature_matches |-> features, all_code |-> code]

MissingTree == Tree(<<>>, <<>>, <<>>, <<>>, "")

\* list(set(...)): the elements of a set once each, in an order the hashing
\* of the process decides; Orders(S) is every list the call can return
Orders(S) ==
    {o \in [1..Cardinality(S) -> S] : \A i, j \in 1..Cardinality(S) :
                                          o[i] = o[j] => i = j}

\* the frameworks detected, in the order of FRAMEWORK_KEYWORDS (lines 705-709):
\* those whose lower-cased name is in the lower-cased code (the test for
\* "import <framework>" finds nothing the first test does not)
Integrations(tree) ==
    LET names == [i \in 1..Len(FRAMEWORK_KEYWORDS) |->
                      FRAMEWORK_KEYWORDS[i].framework]
    IN  Filter(names, {n \in Range(names) :
                          Contains(Lower(tree.all_code), Lower(n))})

\* hint_map (lines 734-741)
hint_map ==
    <<[cat |-> "FINANCE",
       hints |-> {"stock", "ticker", "portfolio", "dividend", "market",
                  "invest", "trading"}],
      [cat |-> "HEALTH_AND_FITNESS",
       hints |-> {"workout", "exercise", "calorie", "heart rate", "step count",
                  "fitness"}],
      [cat |-> "PRODUCTIVITY",
       hints |-> {"task", "todo", "reminder", "schedule", "workflow"}],
      [cat |-> "EDUCATION",
       hints |-> {"quiz", "flashcard", "study", "exam", "lesson"}],
      [cat |-> "MUSIC",
       hints |-> {"tuner", "metronome", "chord", "guitar", "piano"}],
      [cat |-> "WRITING",
       hints |-> {"markdown", "editor", "document", "draft", "publish"}]>>

\* HintSet with a category hinted by one word of its list
HintSet_OneWord(tree) ==
    Range(FrameworkHints(Integrations(tree)))
    \cup {hint_map[i].cat : i \in {j \in 1..Len(hint_map) :
              Cardinality({h \in hint_map[j].hints :
                              Contains(Lower(tree.all_code), h)}) >= 1}}


\* the set category_hints before it is made a list (lines 725-744): the hints
\* of the frameworks, and every category of hint_map of which the code holds
\* two hint words or more
HintSet(tree) ==
    Range(FrameworkHints(Integrations(tree)))
    \cup {hint_map[i].cat : i \in {j \in 1..Len(hint_map) :
              Cardinality({h \in hint_map[j].hints :
                              Contains(Lower(tree.all_code), h)}) >= 2}}

\* The analyses analyze_project can return for a tree: tab_names, features
\* and category_hints are lists made of sets (lines 702, 722, 746), features
\* cut to 20.
analyze_project(tree) ==
    {[view_names |-> tree.view_names,
      model_names |-> tree.model_names,
      tab_names |-> tabs,
      integrations |-> Integrations(tree),
      has_subscription |-> \/ InList("RevenueCat", Integrations(tree))
                           \/ InList("StoreKit", Integrations(tree)),
      features |-> Take(features, 20),
      category_hints |-> hints] :
        tabs \in Orders(Range(tree.tab_matches)),
        features \in Orders(Range(tree.feature_matches)),
        hints \in Orders(HintSet(tree))}

\* re.findall(r'[A-Z][a-z]+|[a-z]+', name) from position i on
RECURSIVE CamelFrom(_, _)
CamelFrom(s, i) ==
    IF i > Len(s) THEN <<>>
    ELSE LET c == CharAt(s, i)
             from == IF c \in UpperChars THEN i + 1 ELSE i
             n == RunLen(s, from, LowerChars)
         IN  IF n > 0 /\ (c \in UpperChars \/ c \in LowerChars)
             THEN <<SubSeq(s, i, from + n - 1)>> \o CamelFrom(s, from + n)
             ELSE CamelFrom(s, i + 1)

CamelWords(name) == CamelFrom(name, 1)

\* the words lines 755-760 keep of the view and model names
NameKeywords(names) ==
    {w \in UNION {LowerSet(CamelWords(names[i])) : i \in 1..Len(names)} :
        Len(w) > 2 /\ w \notin structural_words}

\* the words lines 766-775 keep of the tab names and of the features
LabelKeywords(labels) ==
    {w \in UNION {Range(SplitWhitespace(Lower(labels[i]))) : i \in 1..Len(labels)} :
        Len(w) > 2 /\ w \notin stop_words}

\* FRAMEWORK_KEYWORDS[integration] for every integration (lines 781-783)
IntegrationKeywords(integrations) ==
    UNION {Range(FRAMEWORK_KEYWORDS[i].keywords) :
              i \in {j \in 1..Len(FRAMEWORK_KEYWORDS) :
                        InList(FRAMEWORK_KEYWORDS[j].framework, integrations)}}

\* The set extract_keywords_from_features returns (lines 750-785).
extract_keywords_from_features(an) ==
    ((NameKeywords(an.view_names \o an.model_names)
        \cup LabelKeywords(an.tab_names) \cup LabelKeywords(an.features))
      \ stop_words)
    \cup IntegrationKeywords(an.integrations)

\* the category keyword pool (lines 1025-1029): the pools of the hints one
\* after the other, and the productivity pool when that gives nothing
RECURSIVE PoolOf(_)
PoolOf(hints) ==
    IF hints = <<>> THEN <<>>
    ELSE CATEGORY_KEYWORDS(Head(hints)) \o PoolOf(Tail(hints))

category_pool(hints) ==
    IF PoolOf(hints) = <<>> THEN CATEGORY_KEYWORDS("PRODUCTIVITY")
    ELSE PoolOf(hints)

\* re.split(r'[\s\-:]+', s): the pieces between runs of separators, the
\* empty piece before a leading run and after a trailing run included
SeparatorChars == WhitespaceChars \cup {"-", ":"}

RECURSIVE ReSplit(_)
ReSplit(s) ==
    LET at == {i \in 1..Len(s) : CharAt(s, i) \in SeparatorChars}
    IN  IF at = {} THEN <<s>>
        ELSE LET i == MinOf(at)
                 n == RunLen(s, i, SeparatorChars)
             IN  <<SubSeq(s, 1, i - 1)>> \o ReSplit(SubSeq(s, i + n, Len(s)))

\* [w for w in re.split(r'[\s\-:]+', s) if len(w) > 2] (lines 1032, 1044)
LongWords(s) ==
    LET pieces == ReSplit(s)
    IN  Filter(pieces, {pieces[i] : i \in {j \in 1..Len(pieces) :
                                              Len(pieces[j]) > 2}})

(***************************************************************************)
(* cmd_optimize: the pipeline from the source tree to the saved record and *)
(* the upload                                                              *)
(***************************************************************************)
\* the source trees the pipeline is run on: a root that does not exist; a
\* trip planner with a view, a tab named twice and two titles; a subscription app whose code
\* names a framework and hints at two categories; a tree whose file names give no keyword; a tree
\* whose one keyword is a word of the subtitle; a tree with two files
\* DetailView.swift in two directories
Trees ==
    {MissingTree,
     Tree(<<"TripListView">>, <<>>, <<"Routes", "Routes">>, <<"Trip", "Routes">>,
          "struct TripListView: View {\n  Tab(\"Routes\") { Text(\"c\")"
          \o ".navigationTitle(\"Trip\") }\n  Tab(\"Routes\") { Text(\"d\")"
          \o ".navigationTitle(\"Routes\") }\n  // Task list\n}\n"),
     Tree(<<>>, <<>>, <<>>, <<>>,
          "import StoreKit\n// Stock ticker\n// multitasking TODO\n"),
     Tree(<<"ContentView">>, <<"AppState">>, <<>>, <<>>,
          "struct ContentView: View {}\nclass AppState: ObservableObject {}\n"),
     Tree(<<"PowerfulView">>, <<>>, <<>>, <<>>, "struct PowerfulView: View {}\n"),
     Tree(<<"DetailView", "DetailView">>, <<>>, <<>>, <<>>,
          "struct DetailView: View {}\nstruct DetailView: View {}\n")}

\* the names the store can answer; no name when the request fails or the app
\* has none
Titles ==
    {"",
     "Simple Trip-Planner: Pro Edition for Long Weekends, City Breaks, Road Trips"
     \o " and Alpine Hikes"}

InitOptimize ==
    /\ pc = "cmd_optimize"
    /\ project \in Trees
    /\ apply \in BOOLEAN
    /\ file = NoFile
    /\ requests = <<>>
    /\ IdleKw /\ IdleGuard
    /\ title_words = <<>>
    /\ analysis = NONE /\ app_name = NONE /\ keyword_words = <<>>
    /\ new_subtitle = NONE /\ new_description = NONE /\ new_promo = NONE
    /\ IdleSubmit

\* analysis = analyze_project(project_path) (line 1005)
AnalyzeProject ==
    /\ pc = "cmd_optimize"
    /\ analysis' \in analyze_project(project)
    /\ pc' = "get_current_metadata"
    /\ UNCHANGED <<pipeVars, kwVars, title_words, app_name, keyword_words,
                   new_subtitle, new_description, new_promo, guardVars,
                   submitVars>>

\* the requests of get_current_metadata (lines 969-997): the localizations
\* are asked for when the list before them came with data
CurrentRequests(versions, infos) ==
    <<Request("GET", "/apps/{app_id}?fields[apps]=name", <<>>),
      Request("GET", "/apps/{app_id}/appStoreVersions", <<>>)>>
    \o (IF versions = "data"
        THEN <<Request("GET",
                  "/appStoreVersions/{ver_id}/appStoreVersionLocalizations", <<>>)>>
        ELSE <<>>)
    \o <<Request("GET", "/apps/{app_id}/appInfos", <<>>)>>
    \o (IF infos = "data"
        THEN <<Request("GET", "/appInfos/{info_id}/appInfoLocalizations", <<>>)>>
        ELSE <<>>)

\* current = get_current_metadata(app_id); app_name = current["title"] or
\* "App" (lines 1016-1017)
GetCurrentMetadata ==
    /\ pc = "get_current_metadata"
    /\ \E title \in Titles, versions \in Answers, infos \in Answers :
          /\ requests' = requests \o CurrentRequests(versions, infos)
          /\ app_name' = IF title = "" THEN "App" ELSE title
    /\ pc' = "extract_keywords"
    /\ UNCHANGED <<project, apply, file, kwVars, title_words, analysis,
                   keyword_words, new_subtitle, new_description, new_promo,
                   guardVars, submitVars>>

\* feature_kws, category_pool and title_words (lines 1021-1032); the list
\* made of feature_kws at line 1036 and again at line 1046 is the same list,
\* in an order the hashing of the process decides
ExtractKeywords ==
    /\ pc = "extract_keywords"
    /\ feature_keywords' \in Orders(extract_keywords_from_features(analysis))
    /\ category_keywords' = category_pool(analysis.category_hints)
    /\ title_words' = LongWords(app_name)
    /\ pc' = "optimize_keywords"
    /\ UNCHANGED <<pipeVars, subtitle_words, limit, ordered, new_keywords,
                   copyVars, guardVars, submitVars>>

\* new_keywords = build_keyword_field(list(feature_kws), category_pool,
\* title_words, [], limit=100); kw_words = new_keywords.split(",")
\* (lines 1035-1040)
OptimizeKeywords ==
    /\ pc = "optimize_keywords"
    /\ LET r == build_keyword_field(feature_keywords, category_keywords,
                                    title_words, <<>>, DEFAULT_KEYWORD_LIMIT)
       IN  /\ ordered' = r.ordered
           /\ new_keywords' = r.value
           /\ keyword_words' = IF r.raised THEN keyword_words
                               ELSE SplitOn(r.value, ",")
           /\ pc' = IF r.raised THEN "optimize_raised" ELSE "optimize_subtitle"
    /\ UNCHANGED <<pipeVars, feature_keywords, category_keywords, title_words,
                   subtitle_words, limit, analysis, app_name, new_subtitle,
                   new_description, new_promo, guardVars, submitVars>>

\* new_subtitle = generate_subtitle(analysis, title_words, kw_words) and
\* subtitle_words (lines 1041-1044)
OptimizeSubtitle ==
    /\ pc = "optimize_subtitle"
    /\ new_subtitle' = generate_subtitle(analysis, title_words, keyword_words,
                                         SUBTITLE_LIMIT)
    /\ subtitle_words' = LongWords(new_subtitle')
    /\ pc' = "optimize_rebuild"
    /\ UNCHANGED <<pipeVars, feature_keywords, category_keywords, title_words,
                   limit, ordered, new_keywords, analysis, app_name,
                   keyword_words, new_description, new_promo, guardVars,
                   submitVars>>

\* new_keywords = build_keyword_field(list(feature_kws), category_pool,
\* title_words, subtitle_words, limit=100) (lines 1045-1047)
RebuildKeywords ==
    /\ pc = "optimize_rebuild"
    /\ LET r == build_keyword_field(feature_keywords, category_keywords,
                                    title_words, subtitle_words,
                                    DEFAULT_KEYWORD_LIMIT)
       IN  /\ ordered' = r.ordered
           /\ new_keywords' = r.value
           /\ pc' = IF r.raised THEN "optimize_raised" ELSE "generate_description"
    /\ UNCHANGED <<pipeVars, feature_keywords, category_keywords, title_words,
                   subtitle_words, limit, copyVars, guardVars, submitVars>>

\* the record optimized (lines 1054-1060)
Optimized(subtitle, keywords, description, promo) ==
    [locale |-> "en-US", subtitle |-> subtitle, keywords |-> keywords,
     description |-> description, promotionalText |-> promo]

\* warnings = validate_metadata(optimized) and what is printed of it; the
\* function returns when a warning is an error (lines 1087-1095)
ValidateOptimized ==
    /\ pc = "generated"
    /\ LET r == ValidateCall(Optimized(new_subtitle, new_keywords,
                                       new_description, new_promo))
           ws == r.returned
       IN  /\ meta' = r.meta
           /\ warnings' = ws
           /\ stdout' = stdout \o r.printed \o
                 (IF ws = <<>> THEN <<Warning("  ^uO All checks passed")>>
                  ELSE Indented(ws) \o
                       (IF HasBlockers(ws)
                        THEN <<Warning("\n" \o BLOCK_MARK
                                 \o " Guardrail errors found ^Ai not saving.")>>
                        ELSE <<>>))
           /\ pc' = IF HasBlockers(ws) THEN "not_saved" ELSE "save_file"
    /\ UNCHANGED <<pipeVars, kwVars, title_words, copyVars, force, allowed,
                   submitVars>>

\* json.dump(optimized, f, indent=2) at the output path (lines 1098-1102)
SaveFile ==
    /\ pc = "save_file"
    /\ file' = FileOf(meta)
    /\ stdout' = Append(stdout, Warning("\nuiae Saved to {output_path}"))
    /\ pc' = "apply"
    /\ UNCHANGED <<project, apply, requests, kwVars, title_words, copyVars,
                   meta, force, warnings, allowed, submitVars>>

\* cmd_optimize that uploads whatever the flag
AfterSave_Always(flag) == "cmd_set"

\* where cmd_optimize goes after the file is written (lines 1105-1109): into
\* cmd_set when apply is set, to its end when not
AfterSave(flag) == IF flag THEN "cmd_set" ELSE "optimize_returned"

\* if apply: cmd_set(app_id, output_path, force=True), else the hint
Apply ==
    /\ pc = "apply"
    /\ pc' = AfterSave(apply)
    /\ IF pc' = "cmd_set"
       THEN /\ force' = TRUE
            /\ stdout' = Append(stdout,
                  Warning("\n^oAOPe  Uploading optimized metadata to ASC..."))
       ELSE /\ force' = force
            /\ stdout' = Append(stdout, Warning("\nui* To apply: python3 "
                  \o "asc-metadata.py optimize {app_id} {project_path} --apply"))
    /\ UNCHANGED <<pipeVars, kwVars, title_words, copyVars, meta, warnings,
                   allowed, submitVars>>

NextOptimize ==
    \/ AnalyzeProject \/ GetCurrentMetadata \/ ExtractKeywords
    \/ OptimizeKeywords \/ OptimizeSubtitle \/ RebuildKeywords
    \/ GenerateDescription \/ GeneratePromoText
    \/ ValidateOptimized \/ SaveFile \/ Apply
    \/ CmdSet

SpecOptimize == InitOptimize /\ [][NextOptimize]_vars

(***************************************************************************)
(* Claims on the pipeline                                                  *)
(***************************************************************************)
\* an analysis with nothing in it, as analyze_project reports for a root path
\* that does not exist
EmptyAnalysis ==
    /\ pc # "cmd_optimize"
    /\ analysis.features = <<>> /\ analysis.integrations = <<>>
    /\ analysis.view_names = <<>> /\ analysis.model_names = <<>>
    /\ analysis.tab_names = <<>> /\ analysis.category_hints = <<>>

\* C15: with an all-empty analysis no stage after the analysis raises: the
\* keyword synthesis over the empty feature-keyword list and the fallback
\* category pool, the subtitle, the description, the promotional text and
\* the validation all return.  The code raises UnboundLocalError in the
\* first keyword synthesis.
C15_EmptyAnalysisCompletes == EmptyAnalysis => pc # "optimize_raised"

\* the record a run builds from an analysis, an app name and the order in
\* which the set of feature keywords is listed (lines 1024-1060); RaisedRun
\* when a keyword synthesis raises
RaisedRun == [raised |-> TRUE]

RunRecord(an, name, fk) ==
    LET ck == category_pool(an.category_hints)
        tw == LongWords(name)
        k1 == build_keyword_field(fk, ck, tw, <<>>, DEFAULT_KEYWORD_LIMIT)
        st == generate_subtitle(an, tw, SplitOn(k1.value, ","), SUBTITLE_LIMIT)
        k2 == build_keyword_field(fk, ck, tw, LongWords(st),
                                  DEFAULT_KEYWORD_LIMIT)
    IN  IF k1.raised \/ k2.raised THEN RaisedRun
        ELSE Optimized(st, k2.value,
                       generate_description(an, name, st, k2.value,
                                            DESCRIPTION_LIMIT),
                       generate_promo_text(an, name, PROMO_LIMIT))

\* every record a run over a source tree and an app name can build
RunRecords(tree, name) ==
    {RunRecord(an, name, fk) :
        an \in analyze_project(tree),
        fk \in UNION {Orders(extract_keywords_from_features(a)) :
                         a \in analyze_project(tree)}}

\* C14: two runs of the pipeline over the same source tree and the same app
\* name build the same record, whatever the order in which the sets of
\* feature strings, of keywords and of category hints are listed: the record
\* of this run is the record of every run.  The code lists the sets in the
\* order of the process's hashing, and the keywords and the feature bullets
\* follow it.
C14_SameRecordEveryRun ==
    pc = "save_file" => RunRecords(project, app_name) = {meta}

\* the run is inside cmd_set, or cmd_set has ended
InCmdSet ==
    pc \in {"cmd_set", "set_raised", "set_exited", "get_versions",
            "get_localizations", "patch_version", "subtitle",
            "get_info_localizations", "patch_subtitle", "categories",
            "set_returned"}

\* the lines cmd_optimize prints of the validation, of the file write and
\* of the upload
ValidationLines ==
    IF warnings = <<>> THEN {Warning("  ^uO All checks passed")}
    ELSE Range(Indented(warnings))
SavedLine == Warning("\nuiae Saved to {output_path}")
UploadLine == Warning("\n^oAOPe  Uploading optimized metadata to ASC...")

\* C17: without the apply flag cmd_optimize never enters cmd_set and sends
\* nothing but GET requests; with the flag a run that has written the file
\* goes on into cmd_set, and cmd_set is entered with force = True, on the
\* file that holds the generated record, after the validation and after the
\* file write.
C17_ApplyGatesPublisher ==
    /\ ~apply => /\ ~InCmdSet
                 /\ \A i \in 1..Len(requests) : requests[i].method = "GET"
    /\ pc = "optimize_returned" => ~apply
    /\ InCmdSet =>
          /\ apply /\ force
          /\ file = FileOf(Optimized(new_subtitle, new_keywords,
                                     new_description, new_promo))
          /\ \E i, j, k \in 1..Len(stdout) :
                /\ i < j /\ j < k
                /\ stdout[i] \in ValidationLines
                /\ stdout[j] = SavedLine
                /\ stdout[k] = UploadLine

\* a run with the flag in which cmd_set has sent the generated subtitle to
\* the store
C17_Witness ==
    /\ apply /\ force /\ pc = "set_returned"
    /\ \E i \in 1..Len(requests) :
          /\ requests[i].method = "PATCH"
          /\ requests[i].payload = [subtitle |-> new_subtitle]

(***************************************************************************)
(* Claims on the singular forms                                            *)
(***************************************************************************)
\* the candidates of a call, lower-cased and stripped
Candidates == Normalized(feature_keywords) \cup Normalized(category_keywords)

\* a candidate that ends in "s" and is not exempt
PluralLooking(kw) == EndsWith(kw, "s") /\ ~ExemptFromSingular(kw)

\* C21 as stated: a candidate that ends in "s", is not in the exception list
\* and does not end in "ss", "us" or "is" is never an entry of the output
\* with its "s", whatever its length.  The code leaves words of three letters or
\* fewer as they are ("gps").
C21_SingularWhateverLength ==
    pc = "returned" =>
        \A kw \in Candidates :
            PluralLooking(kw) => kw \notin Range(ordered)

\* C21 as amended: such a candidate of more than three characters is never
\* an entry of the output with its "s", and unless it or its shortened form is an
\* excluded word the shortened form is among the ordered candidates.
C21_SingularWhenLong ==
    pc = "returned" =>
        \A kw \in Candidates :
            (PluralLooking(kw) /\ Len(kw) > 3) =>
                /\ kw \notin Range(ordered)
                /\ {kw, Chop(kw)} \cap ExcludeSet(title_words, subtitle_words) = {}
                      => Chop(kw) \in Range(ordered)

\* C21 witness: "Maps" of the feature keywords is in the result as "map",
\* and "gps" of three letters is in it as it is.
C21_Witness ==
    /\ pc = "returned"
    /\ "maps" \in Normalized(feature_keywords)
    /\ "gps" \in Candidates
    /\ {"map", "gps"} \subseteq KeywordTokens
    /\ "maps" \notin KeywordTokens

(***************************************************************************)
(* Claims on the choice of the subtitle                                    *)
(***************************************************************************)
\* the words a phrase shares with the title words and the keyword words
SharedWords(c) ==
    {w \in LowerSet(SplitWhitespace(c)) :
        \/ \E i \in 1..Len(title_words) : Lower(title_words[i]) = w
        \/ \E i \in 1..Len(keyword_words) : Lower(keyword_words[i]) = w}

\* a phrase within the length bound that shares one word at most
Acceptable(c) == Len(c) <= SUBTITLE_LIMIT /\ Cardinality(SharedWords(c)) <= 1

\* the subtitle is the first acceptable phrase of the list
FirstAcceptable(list) ==
    \E i \in 1..Len(list) :
        /\ Acceptable(list[i])
        /\ \A k \in 1..(i - 1) : ~Acceptable(list[k])
        /\ new_subtitle = list[i]

C22_NoneAcceptable ==
    /\ SubtitleDone
    /\ \A i \in 1..Len(SubtitleCandidates(analysis.category_hints)) :
          /\ Len(SubtitleCandidates(analysis.category_hints)[i]) <= SUBTITLE_LIMIT
          /\ ~Acceptable(SubtitleCandidates(analysis.category_hints)[i])

(***************************************************************************)
(* Claims on the generated record                                          *)
(***************************************************************************)
\* the words of a text, lower-cased: the pieces between spaces, hyphens and
\* colons that hold a letter or a digit
WordsOf(s) ==
    {Lower(w) : w \in {p \in Range(ReSplit(s)) :
                          Chars(p) \cap (LetterChars \cup DigitChars) # {}}}

\* the record of the run is built and validated
RecordBuilt == pc \in {"save_file", "apply", "optimize_returned"}

\* C23: in the record of the pipeline no token of the keywords is a word of
\* the app title or of the subtitle, and the subtitle shares no word with the
\* title.  The code lets the subtitle share one word with the title and the
\* keyword words.
C23_NoWordAcrossFields ==
    RecordBuilt =>
        LET tokens == LowerSet(SplitOn(meta.keywords, ","))
        IN  /\ tokens \cap WordsOf(app_name) = {}
            /\ tokens \cap WordsOf(meta.subtitle) = {}
            /\ WordsOf(meta.subtitle) \cap WordsOf(app_name) = {}

(***************************************************************************)
(* The scan of one text field for phone numbers and URLs                   *)
(***************************************************************************)
\* texts with digits: 8 and 9 digits in a row, 7 and 8 digits with a
\* separator, 11 digits with separators, 4 digits far apart, a year
PhoneTexts ==
    {"Call 12345678", "Call 123456789", "Call 555-1234", "1234 5678",
     "Call +1 (555) 123-4567", "Rooms 1 - 2 - 3 - 4", "Since 2019"}

\* texts with a URL: of the allow-list with either scheme, of another site,
\* of apple.com without www, of a host with no dot, of a path that only
\* begins like the allow-listed one
UrlTexts ==
    {"See https://www.apple.com/legal/x", "See http://www.apple.com/legal/x",
     "See https://zeph.app/terms", "See https://apple.com/legal/x",
     "See https://localhost/aso", "See https://www.apple.com/legalese"}

\* the analysis of an app with a subscription and nothing else
SubscriptionAnalysis == AnalysisOf(<<>>, <<>>, <<"StoreKit">>, <<>>)

\* the number of "Zeph " in an app name with which the cut at 4000 characters
\* falls inside the Terms of Use URL
CutNameWords == 325

\* descriptions generate_description builds for the subscription app: whole,
\* and cut at the limit
GeneratedDescriptions ==
    {generate_description(SubscriptionAnalysis, name, "", "", DESCRIPTION_LIMIT) :
        name \in {"Zeph", Rep("Zeph ", CutNameWords)}}

\* a record of one text field
OneField(field, text) == [f \in {field} |-> text]

InitScan ==
    /\ pc = "guardrails"
    /\ meta \in {OneField(f, t) : f \in Range(text_fields),
                                  t \in PhoneTexts \cup UrlTexts \cup {"Plan your day."}}
               \cup {OneField("description", t) : t \in GeneratedDescriptions}
    /\ force = FALSE
    /\ warnings = NONE /\ allowed = NONE /\ stdout = <<>>
    /\ IdleKw /\ IdlePipe
    /\ title_words = <<>>
    /\ analysis = NONE /\ app_name = NONE /\ keyword_words = <<>>
    /\ new_subtitle = NONE /\ new_description = NONE /\ new_promo = NONE
    /\ IdleSubmit

NextScan == ValidateMetadata

SpecScan == InitScan /\ [][NextScan]_vars

\* the one field of the record and its text
ScannedField == CHOOSE f \in DOMAIN meta : TRUE
ScannedText == meta[ScannedField]

\* a warning of the given label on the scanned field
Flagged(label) ==
    \E i \in 1..Len(warnings) :
        /\ IsWarn(warnings[i])
        /\ TaggedTo(warnings[i], ScannedField)
        /\ Contains(warnings[i].text, "contains " \o label \o ": ")

\* the characters a phone number is made of besides digits
PhoneSeparators == WhitespaceChars \cup {"-", "(", ")"}

\* positions i..j of the text hold digits and separators only, a digit at
\* both ends
DigitRun(i, j) ==
    /\ CharAt(ScannedText, i) \in DigitChars
    /\ CharAt(ScannedText, j) \in DigitChars
    /\ \A k \in i..j : CharAt(ScannedText, k) \in DigitChars \cup PhoneSeparators

DigitsIn(i, j) ==
    Cardinality({k \in i..j : CharAt(ScannedText, k) \in DigitChars})

\* C24 as stated: a text field yields a phone-number warning exactly when it
\* holds a sequence of 8 digits or more, with or without separators between
\* them.  The code counts characters, not digits: 8 digits in a row yield
\* none, and 4 digits spread over 13 characters yield one.
C24_EightDigits ==
    pc = "validated" =>
        (Flagged("phone number") <=>
            \E i, j \in 1..Len(ScannedText) :
                DigitRun(i, j) /\ DigitsIn(i, j) >= 8)

\* C24 as amended: a text field yields a phone-number warning exactly when it
\* holds a run of 9 characters or more that begins and ends with a digit and
\* is made of digits, whitespace, hyphens and parentheses.
C24_NineCharacters ==
    pc = "validated" =>
        (Flagged("phone number") <=>
            \E i, j \in 1..Len(ScannedText) :
                DigitRun(i, j) /\ j - i + 1 >= 9)

\* C24 witness: 8 digits with one space between them are flagged
C24_Witness ==
    /\ pc = "validated"
    /\ ScannedText = "1234 5678"
    /\ Flagged("phone number")

\* the URLs of the scanned text: what runs from "http://" or "https://" to
\* the next whitespace
UrlsOfText ==
    LET t == ScannedText
        starts == {i \in 1..Len(t) :
                      \/ Len(t) >= i + 6 /\ SubSeq(t, i, i + 6) = "http://"
                      \/ Len(t) >= i + 7 /\ SubSeq(t, i, i + 7) = "https://"}
    IN  {SubSeq(t, i, i + RunLen(t, i, Chars(t) \ WhitespaceChars) - 1) :
            i \in starts}

\* the URL begins with the allow-listed prefix
AllowListed(u) ==
    \/ StartsWith(u, "https://www.apple.com/legal/")
    \/ StartsWith(u, "http://www.apple.com/legal/")

\* C25: a URL in a scanned text field yields a URL warning exactly when it
\* does not begin with the allow-listed prefix, and a description built by
\* generate_description, with its Terms of Use URL, yields no URL warning.
\* The code cuts the description at 4000 characters, and a Terms of Use URL
\* cut short is flagged.
C25_UrlWarnedUnlessAllowListed ==
    pc = "validated" =>
        /\ \A u \in UrlsOfText : Flagged("URL") <=> ~AllowListed(u)
        /\ ScannedText \in GeneratedDescriptions => ~Flagged("URL")

\* the description cut inside the Terms of Use URL is flagged
C25_CutUrlFlagged ==
    /\ pc = "validated"
    /\ ScannedText \in GeneratedDescriptions
    /\ Flagged("URL")

(***************************************************************************)
(* Claims on the analysis                                                  *)
(***************************************************************************)
\* the analysis is made
Analyzed == pc # "cmd_optimize"

\* no element is in the list twice
NoDuplicate(list) ==
    \A i, j \in 1..Len(list) : list[i] = list[j] => i = j

\* C26: every collection of the analysis is free of duplicates: features,
\* integrations, view_names, model_names, tab_names and category_hints, also
\* for a tree with several files of one base name.  The code appends the
\* base name of every file to view_names and model_names.
C26_NoDuplicates ==
    Analyzed =>
        /\ NoDuplicate(analysis.features)
        /\ NoDuplicate(analysis.integrations)
        /\ NoDuplicate(analysis.view_names)
        /\ NoDuplicate(analysis.model_names)
        /\ NoDuplicate(analysis.tab_names)
        /\ NoDuplicate(analysis.category_hints)

(***************************************************************************)
(* analyze_project on its own: the category hints                          *)
(***************************************************************************)
\* the code of a one-file project: an import or none, then a comment of two
\* words; the words come from the lists of hint_map, in the case a programmer
\* may write them in
CodeImports ==
    {"", "import HealthKit\n", "import MusicKit\n", "import mapkit\n",
     "import CoreLocation\nimport MapKit\n"}

CodeWords == {"Workout", "heart rate", "EXERCISE", "stock", "Chord", "piano", "quiz"}

CodeTexts ==
    {imp \o "// " \o a \o " " \o b \o "\n" :
        imp \in CodeImports, a \in CodeWords, b \in CodeWords}

InitAnalyze ==
    /\ pc = "cmd_optimize"
    /\ project \in {Tree(<<>>, <<>>, <<>>, <<>>, code) : code \in CodeTexts}
    /\ apply = FALSE
    /\ file = NoFile
    /\ requests = <<>>
    /\ IdleKw /\ IdleGuard
    /\ title_words = <<>>
    /\ analysis = NONE /\ app_name = NONE /\ keyword_words = <<>>
    /\ new_subtitle = NONE /\ new_description = NONE /\ new_promo = NONE
    /\ IdleSubmit

NextAnalyze == AnalyzeProject

SpecAnalyze == InitAnalyze /\ [][NextAnalyze]_vars

\* the keys of CATEGORY_KEYWORDS (lines 620-633)
Taxonomy ==
    {"HEALTH_AND_FITNESS", "FOOD_AND_DRINK", "PRODUCTIVITY", "FINANCE", "MUSIC",
     "TRAVEL", "EDUCATION", "UTILITIES", "SOCIAL_NETWORKING", "ENTERTAINMENT",
     "LIFESTYLE", "WRITING"}

\* the categories hinted by a detected integration
IntegrationHinted ==
    {c \in Taxonomy :
        \/ c = "HEALTH_AND_FITNESS" /\ InList("HealthKit", analysis.integrations)
        \/ c = "MUSIC" /\ InList("MusicKit", analysis.integrations)
        \/ c = "TRAVEL" /\ \/ InList("MapKit", analysis.integrations)
                           \/ InList("CoreLocation", analysis.integrations)}

\* the indicative list of a category, empty when hint_map has none for it
IndicativeList(c) ==
    UNION {hint_map[i].hints : i \in {j \in 1..Len(hint_map) : hint_map[j].cat = c}}

\* the categories of which two different words of the indicative list occur
\* in the code, whatever the case of the letters there
DensityHinted ==
    {c \in Taxonomy :
        \E a, b \in IndicativeList(c) :
            /\ a # b
            /\ Contains(Lower(project.all_code), a)
            /\ Contains(Lower(project.all_code), b)}

\* C27: the category hints analyze_project returns are the hints of the
\* integrations together with the density hints, a category being density
\* hinted exactly when two distinct words of its list occur in the code as
\* substrings whatever their case; every hint is one of the 12 categories.
C27_HintsAreUnion ==
    Analyzed =>
        /\ Range(analysis.category_hints) = IntegrationHinted \cup DensityHinted
        /\ Range(analysis.category_hints) \subseteq Taxonomy
        /\ Cardinality(Taxonomy) = 12
        /\ \A c \in Taxonomy : CATEGORY_KEYWORDS(c) # <<>>

\* the code imports MapKit in lower case and names two words of the fitness
\* list in upper and mixed case: both hints are returned; and a code with one
\* word of a list, twice, is not hinted at that list's category
C27_Witness ==
    /\ Analyzed
    /\ project.all_code = "import mapkit\n// Workout EXERCISE\n"
    /\ Range(analysis.category_hints) = {"TRAVEL", "HEALTH_AND_FITNESS"}

C27_OneWordTwice ==
    /\ Analyzed
    /\ project.all_code = "// stock stock\n"
    /\ analysis.category_hints = <<>>

(***************************************************************************)
(* Claims on the generated record and the limits                           *)
(***************************************************************************)
\* the record has gone through validate_metadata
Validated == pc \in {"not_saved", "save_file", "apply", "optimize_returned"}

\* the file is written
Saved == pc \in {"apply", "optimize_returned"}

\* C28: the record cmd_optimize builds (subtitle, keywords built with limit
\* 100, description, promotional text) gets no length-limit error from
\* validate_metadata: every field is within its limit, no warning is an error,
\* the branch that returns without saving is never taken, and once the save
\* step has run the file holds the record.
C28_GeneratedRecordSaved ==
    /\ pc # "not_saved"
    /\ Validated =>
          /\ meta = Optimized(new_subtitle, new_keywords, new_description,
                              new_promo)
          /\ Len(meta.subtitle) <= 30
          /\ Len(meta.keywords) <= 100
          /\ Len(meta.description) <= 4000
          /\ Len(meta.promotionalText) <= 170
          /\ \A i \in 1..Len(warnings) : ~StartsWith(warnings[i].text, BLOCK_MARK)
    /\ Saved => file = FileOf(meta)

\* a record whose promotional text was cut at its limit and whose keyword
\* field has no room left for the next keyword of the pool is saved
C28_Witness ==
    /\ Saved
    /\ file = FileOf(meta)
    /\ Len(meta.promotionalText) = 170
    /\ Len(PromoTemplate(analysis.category_hints, app_name)) > 170
    /\ Len(meta.keywords) > 90

(***************************************************************************)
(* The submission for review: cmd_submit                                   *)
(***************************************************************************)
\* the ids the store hands out
AppIds == {"6470001", "6470002"}
SubmissionIds == {"sub-1", "sub-2"}
ItemIds == {"item-1"}

\* the versions the store lists: none, one, or two with the latest first
VersionLists == {<<>>, <<"ver-2">>, <<"ver-3", "ver-2">>}

ErrorDetails == {<<>>, <<"An attribute value is invalid.">>}

\* what _rapi returns (a requests.Response): a success status with the id of
\* the resource in the body, or an error status with a list of errors
Responses(ids) ==
    [status : {200, 201}, id : ids, errors : {<<>>}]
    \cup [status : {409, 500}, id : {NONE}, errors : ErrorDetails]

\* print(f"ERROR: {err.get('detail', '')}") for every error of the body
ErrorLines(errors) ==
    [i \in 1..Len(errors) |-> Warning("ERROR: " \o errors[i])]

InitSubmit ==
    /\ pc = "cmd_submit"
    /\ app_id \in AppIds
    /\ sub_id = NONE /\ ver_id = NONE /\ responses = <<>>
    /\ IdlePipe /\ IdleKw /\ IdleGuard
    /\ title_words = <<>>
    /\ analysis = NONE /\ app_name = NONE /\ keyword_words = <<>>
    /\ new_subtitle = NONE /\ new_description = NONE /\ new_promo = NONE

\* where cmd_submit goes after the POST of the review submission: on with any
\* success status
AfterCreate_AnySuccess(status) ==
    IF status \in {200, 201} THEN "get_latest_version" ELSE "submit_returned"

\* if r.status_code != 201: ... return (lines 502-505)
AfterCreate(status) ==
    IF status # 201 THEN "submit_returned" ELSE "get_latest_version"

\* r = _rapi("POST", "/reviewSubmissions", ...) (lines 496-507)
CreateSubmission ==
    /\ pc = "cmd_submit"
    /\ requests' = Append(requests,
          Request("POST", "/reviewSubmissions",
                  [type |-> "reviewSubmissions", app |-> app_id]))
    /\ \E r \in Responses(SubmissionIds) :
          /\ responses' = Append(responses, r)
          /\ pc' = AfterCreate(r.status)
          /\ IF pc' = "submit_returned"
             THEN /\ stdout' = stdout \o ErrorLines(r.errors)
                  /\ sub_id' = sub_id
             ELSE /\ stdout' = stdout
                  /\ sub_id' = r.id
    /\ UNCHANGED <<app_id, ver_id, project, apply, file, kwVars, title_words,
                   copyVars, meta, force, warnings, allowed>>

\* versions = api("GET", .../appStoreVersions?limit=1...); api returns None
\* on an HTTP error, after printing the errors of the body (lines 510-514)
GetLatestVersion ==
    /\ pc = "get_latest_version"
    /\ requests' = Append(requests,
          Request("GET", "/apps/" \o app_id \o "/appStoreVersions?limit=1"
                  \o "&fields[appStoreVersions]=versionString,appStoreState",
                  <<>>))
    /\ \/ \E errors \in ErrorDetails :
             /\ responses' = Append(responses,
                                    [status |-> 404, id |-> NONE, errors |-> errors])
             /\ stdout' = stdout \o ErrorLines(errors)
                             \o <<Warning("No versions found")>>
             /\ pc' = "submit_returned"
             /\ ver_id' = ver_id
       \/ \E versions \in VersionLists :
             /\ responses' = Append(responses,
                                    [status |-> 200, data |-> versions])
             /\ IF versions = <<>>
                THEN /\ stdout' = Append(stdout, Warning("No versions found"))
                     /\ pc' = "submit_returned"
                     /\ ver_id' = ver_id
                ELSE /\ stdout' = stdout
                     /\ pc' = "add_item"
                     /\ ver_id' = versions[1]
    /\ UNCHANGED <<app_id, sub_id, project, apply, file, kwVars, title_words,
                   copyVars, meta, force, warnings, allowed>>

\* r2 = _rapi("POST", "/reviewSubmissionItems", ...) (lines 517-535)
AddItem ==
    /\ pc = "add_item"
    /\ requests' = Append(requests,
          Request("POST", "/reviewSubmissionItems",
                  [type |-> "reviewSubmissionItems", reviewSubmission |-> sub_id,
                   appStoreVersion |-> ver_id]))
    /\ \E r2 \in Responses(ItemIds) :
          /\ responses' = Append(responses, r2)
          /\ IF r2.status \notin {200, 201}
             THEN /\ stdout' = stdout \o ErrorLines(r2.errors)
                  /\ pc' = "submit_returned"
             ELSE /\ stdout' = stdout
                  /\ pc' = "confirm"
    /\ UNCHANGED <<app_id, sub_id, ver_id, project, apply, file, kwVars,
                   title_words, copyVars, meta, force, warnings, allowed>>

\* r3 = _rapi("PATCH", f"/reviewSubmissions/{sub_id}", ... submitted: True)
\* (lines 538-548)
ConfirmSubmission ==
    /\ pc = "confirm"
    /\ requests' = Append(requests,
          Request("PATCH", "/reviewSubmissions/" \o sub_id,
                  [type |-> "reviewSubmissions", id |-> sub_id,
                   submitted |-> TRUE]))
    /\ \E r3 \in Responses({sub_id}) :
          /\ responses' = Append(responses, r3)
          /\ stdout' = IF r3.status = 200
                       THEN Append(stdout, Warning("uoA App submitted for review!"))
                       ELSE stdout \o ErrorLines(r3.errors)
    /\ pc' = "submit_returned"
    /\ UNCHANGED <<app_id, sub_id, ver_id, project, apply, file, kwVars,
                   title_words, copyVars, meta, force, warnings, allowed>>

NextSubmit ==
    \/ CreateSubmission
    \/ GetLatestVersion
    \/ AddItem
    \/ ConfirmSubmission

SpecSubmit == InitSubmit /\ [][NextSubmit]_vars

\* the request that confirms the submission: PATCH with submitted = true
Confirming(req) ==
    /\ req.method = "PATCH"
    /\ "submitted" \in DOMAIN req.payload
    /\ req.payload.submitted

\* the three steps before the confirmation, as the requests sent and what the
\* store answered to each
CreationReturned201 ==
    /\ Len(requests) >= 1
    /\ requests[1].method = "POST" /\ requests[1].path = "/reviewSubmissions"
    /\ responses[1].status = 201

VersionFound ==
    /\ Len(requests) >= 2
    /\ requests[2].method = "GET"
    /\ "data" \in DOMAIN responses[2] /\ responses[2].data # <<>>

ItemAccepted ==
    /\ Len(requests) >= 3
    /\ requests[3].method = "POST" /\ requests[3].path = "/reviewSubmissionItems"
    /\ responses[3].status \in {200, 201}

\* C29: the confirming request is sent only after the creation of the review
\* submission returned 201, a version was found and the POST of the
\* submission item returned 200 or 201, in that order; when a step fails no
\* confirming request is sent in that invocation, and no request is sent
\* twice.
C29_ConfirmAfterEveryStep ==
    /\ Len(responses) = Len(requests)
    /\ \A i \in 1..Len(requests) :
          Confirming(requests[i]) =>
              i = 4 /\ CreationReturned201 /\ VersionFound /\ ItemAccepted
    /\ (pc = "submit_returned"
        /\ ~(CreationReturned201 /\ VersionFound /\ ItemAccepted)) =>
           \A i \in 1..Len(requests) : ~Confirming(requests[i])
    /\ \A i, j \in 1..Len(requests) : requests[i] = requests[j] => i = j
    /\ Len(requests) <= 4

\* an invocation that went through: the item POST returned 200, the
\* confirming request was sent fourth and answered 200
C29_Witness ==
    /\ pc = "submit_returned"
    /\ Len(requests) = 4 /\ Confirming(requests[4])
    /\ requests[4].path = "/reviewSubmissions/" \o responses[1].id
    /\ responses[3].status = 200
    /\ responses[4].status = 200

\* an invocation that stopped at the item POST: three requests, none confirming
C29_StoppedAtItem ==
    /\ pc = "submit_returned"
    /\ Len(requests) = 3 /\ responses[3].status = 409

=============================================================================
